---- MODULE Spec2Model ----
(***************************************************************************)
(* Catalog cache and retry wrapper of the Bohemia conductor bot            *)
(* (src/bot/main.py): JotFormHelper's three TTL caches, the retry loop     *)
(* around the JotForm client and the admin cache reset.                    *)
(***************************************************************************)
EXTENDS Integers, Sequences, FiniteSets, TLC

VARIABLES
    now,                              \* time.time() when a call is made, in seconds
    forms_cache,                      \* JotFormHelper.forms_cache, in insertion order
    forms_cache_timestamp,            \* JotFormHelper.forms_cache_timestamp
    products_cache,                   \* JotFormHelper.products_cache
    products_cache_timestamps,        \* JotFormHelper.products_cache_timestamps
    form_metadata_cache,              \* JotFormHelper.form_metadata_cache
    form_metadata_cache_timestamps,   \* JotFormHelper.form_metadata_cache_timestamps
    good,                             \* history: key -> value of its last successful refresh
    last,                             \* history: the call made last and how it returned
    retry,                            \* run of the retry loop on its own (SpecRetry)
    task,                             \* handle_message: its position and its locals
    scored,                           \* a call of fuzzy_match_product_name on its own (SpecScore)
    admins,                           \* table admins of database.py: user_id -> added_by_user_id
    admin_history,                    \* history: the first admin, and the users an admin has added
    update,                           \* history: the command handled last, its sender and argument
    conv                              \* one user's two conversations and context.user_data

botVars == <<admins, admin_history, update, conv>>

vars == <<now, forms_cache, forms_cache_timestamp, products_cache,
          products_cache_timestamps, form_metadata_cache,
          form_metadata_cache_timestamps, good, last, retry, task, scored, botVars>>

cacheVars == <<forms_cache, forms_cache_timestamp, products_cache,
               products_cache_timestamps, form_metadata_cache,
               form_metadata_cache_timestamps>>

-----------------------------------------------------------------------------
(* Program constants *)

CACHE_TTL_SECONDS == 300
OPENAI_MAX_RETRIES == 3
OPENAI_BACKOFF_SECONDS == 1
max_retries == 3
backoff_seconds == 1

(* Bounds of the model *)

MaxTicks == 2          \* clock advances taken by the environment
MaxAttempts == 4       \* largest max_retries tried on the retry loop alone
MaxBackoff == 2        \* largest backoff_seconds tried on the retry loop alone
MaxWords == 3          \* longest message scored by fuzzy_match_product_name alone

-----------------------------------------------------------------------------
(* Values *)

None == "None"
Missing == "<missing>"          \* a key the provider's dict does not have
NoValue == <<"no value">>

Errors == {"ConnectionError", "Timeout"}
CacheErrors == {"ConnectionError"}

Ok(v) == [ok |-> TRUE, val |-> v, err |-> None]
Err(e) == [ok |-> FALSE, val |-> NoValue, err |-> e]

\* What one call site sees of the provider: the outcome of each attempt, in
\* order; k < n failures and then an answer, or n failures.
FailSeq(es) == [i \in 1..Len(es) |-> Err(es[i])]

Scripts(vals, n, errs) ==
    {Append(FailSeq(es), Ok(v)) :
        es \in UNION {[1..k -> errs] : k \in 0..(n - 1)}, v \in vals}
    \cup {FailSeq(es) : es \in [1..n -> errs]}

-----------------------------------------------------------------------------
(* _call_with_retry / call_openai_with_retry *)

\* Variants of the loop: one that sleeps after the last failure too, and one
\* that gives up at once on a timeout.
RECURSIVE RetryFrom_sleeps_after_last(_, _, _, _, _)
RetryFrom_sleeps_after_last(script, n, base, attempt, delays) ==
    IF attempt > n
    THEN [raised |-> TRUE, exc |-> "ExternalServiceError",
          cause |-> IF n >= 1 THEN script[n].err ELSE None,
          value |-> NoValue, attempts |-> attempt - 1, delays |-> delays]
    ELSE LET o == script[attempt] IN
         IF o.ok
         THEN [raised |-> FALSE, exc |-> None, cause |-> None,
               value |-> o.val, attempts |-> attempt, delays |-> delays]
         ELSE RetryFrom_sleeps_after_last(script, n, base, attempt + 1,
                                          Append(delays, base * (2 ^ (attempt - 1))))

RECURSIVE RetryFrom_timeout_fatal(_, _, _, _, _)
RetryFrom_timeout_fatal(script, n, base, attempt, delays) ==
    IF attempt > n
    THEN [raised |-> TRUE, exc |-> "ExternalServiceError", cause |-> None,
          value |-> NoValue, attempts |-> attempt - 1, delays |-> delays]
    ELSE LET o == script[attempt] IN
         IF o.ok
         THEN [raised |-> FALSE, exc |-> None, cause |-> None,
               value |-> o.val, attempts |-> attempt, delays |-> delays]
         ELSE IF attempt >= n \/ o.err = "Timeout"
              THEN [raised |-> TRUE, exc |-> "ExternalServiceError",
                    cause |-> o.err, value |-> NoValue,
                    attempts |-> attempt, delays |-> delays]
              ELSE RetryFrom_timeout_fatal(script, n, base, attempt + 1,
                                           Append(delays, base * (2 ^ (attempt - 1))))

\* Variant: the loop goes on after an answer and returns the last one.
RECURSIVE RetryFrom_keeps_trying(_, _, _, _, _)
RetryFrom_keeps_trying(script, n, base, attempt, delays) ==
    LET answers == {i \in 1..n : script[i].ok}
        final == CHOOSE i \in answers : \A j \in answers : j <= i
    IN  IF answers = {}
        THEN [raised |-> TRUE, exc |-> "ExternalServiceError",
              cause |-> IF n >= 1 THEN script[n].err ELSE None,
              value |-> NoValue, attempts |-> n,
              delays |-> [k \in 1..(n - 1) |-> base * (2 ^ (k - 1))]]
        ELSE [raised |-> FALSE, exc |-> None, cause |-> None,
              value |-> script[final].val, attempts |-> final,
              delays |-> [k \in 1..(final - 1) |-> base * (2 ^ (k - 1))]]

RECURSIVE RetryFrom(_, _, _, _, _)
RetryFrom(script, n, base, attempt, delays) ==
    IF attempt > n
    THEN [raised |-> TRUE, exc |-> "ExternalServiceError", cause |-> None,
          value |-> NoValue, attempts |-> attempt - 1, delays |-> delays]
    ELSE LET o == script[attempt] IN
         IF o.ok
         THEN [raised |-> FALSE, exc |-> None, cause |-> None,
               value |-> o.val, attempts |-> attempt, delays |-> delays]
         ELSE IF attempt >= n
              THEN [raised |-> TRUE, exc |-> "ExternalServiceError",
                    cause |-> o.err, value |-> NoValue,
                    attempts |-> attempt, delays |-> delays]
              ELSE RetryFrom(script, n, base, attempt + 1,
                             Append(delays, base * (2 ^ (attempt - 1))))

_call_with_retry(script) == RetryFrom(script, max_retries, backoff_seconds, 1, <<>>)

call_openai_with_retry(script, max_retries_arg, backoff_seconds_arg) ==
    RetryFrom(script, max_retries_arg, backoff_seconds_arg, 1, <<>>)

-----------------------------------------------------------------------------
(* The provider's answers *)

RawForms ==
    << [id |-> "f1", title |-> "January GB", created_at |-> "2024-01-05"],
       [id |-> "f2", title |-> "February GB", created_at |-> "2024-02-05"],
       [id |-> "f3", title |-> Missing, created_at |-> "2024-03-05"] >>

\* get_forms answers: no form, one, two, and answers with a form that has
\* no title.
Listings ==
    { <<>>, <<RawForms[1]>>, <<RawForms[1], RawForms[2]>>,
      <<RawForms[1], RawForms[3]>>, <<RawForms[3]>> }

SubmissionAnswers == { <<>>, <<[created_at |-> "2024-04-01"]>> }

SubScripts ==
    {<<Ok(a)>> : a \in SubmissionAnswers}
    \cup {FailSeq([i \in 1..max_retries |-> "ConnectionError"])}


FormIds == {"f1", "f2"}

\* get_form_properties answers as get_products reads them: the 'products'
\* entry, which may be absent, and whose items may not be dicts.
RawProduct(name, price, description, moq, stock) ==
    [dict |-> TRUE, name |-> name, price |-> price, description |-> description,
     moq |-> moq, quantity |-> Missing, stock |-> stock]

NotADict ==
    [dict |-> FALSE, name |-> Missing, price |-> Missing, description |-> Missing,
     moq |-> Missing, quantity |-> Missing, stock |-> Missing]

Reta == RawProduct("Retatrutide 30", "100", "MOQ: 10", Missing, Missing)
Tirz == RawProduct("Tirzepatide 50", Missing, "5mg vial", "5", "12")

Properties(products) == [has_products |-> TRUE, products |-> products]
NoProductsKey == [has_products |-> FALSE, products |-> <<>>]

PropertyAnswers ==
    { NoProductsKey, Properties(<<Reta>>), Properties(<<Reta, Tirz>>),
      Properties(<<Reta, NotADict>>) }

\* get_form_properties and get_form_questions answers as get_form_metadata
\* reads them.
Question(text, name, defaultValue) ==
    [text |-> text, name |-> name, defaultValue |-> defaultValue]

TitleAnswers == { [title |-> "January GB - Acme"], [title |-> "February GB"] }

QuestionAnswers ==
    { <<>>,
      <<Question("Beta Labs", "supplier", ""),
        Question("", "closing", "2024-02-01")>> }

-----------------------------------------------------------------------------
(* JotFormHelper *)

\* Variants of is_cache_expired: expiry already at age = TTL, and the
\* operands of the subtraction swapped.
is_cache_expired_at_ttl(timestamp, t) == (t - timestamp) >= CACHE_TTL_SECONDS
is_cache_expired_swapped(timestamp, t) == (timestamp - t) > CACHE_TTL_SECONDS

is_cache_expired(timestamp, t) == (t - timestamp) > CACHE_TTL_SECONDS

\* Variant of clear_all_caches that forgets the products.
clear_all_caches_keeps_products ==
    /\ forms_cache' = <<>>
    /\ products_cache' = products_cache
    /\ form_metadata_cache' = <<>>
    /\ forms_cache_timestamp' = 0
    /\ products_cache_timestamps' = products_cache_timestamps
    /\ form_metadata_cache_timestamps' = <<>>

clear_all_caches ==
    /\ forms_cache' = <<>>
    /\ products_cache' = <<>>
    /\ form_metadata_cache' = <<>>
    /\ forms_cache_timestamp' = 0
    /\ products_cache_timestamps' = <<>>
    /\ form_metadata_cache_timestamps' = <<>>

FormsKey == <<"forms">>
ProductsKey(form_id) == <<"products", form_id>>
MetadataKey(form_id) == <<"metadata", form_id>>

\* Variant of dict[k] = v: the dict is replaced by one that has this key only.
Put_alone(f, k, v) == [x \in {k} |-> v]

\* dict[k] = v and dict.get(k, default)
Put(f, k, v) == [x \in (DOMAIN f) \cup {k} |-> IF x = k THEN v ELSE f[x]]
Get(f, k, default) == IF k \in DOMAIN f THEN f[k] ELSE default

\* How a call returned: the value or the exception, the attempts made on the
\* key's loader, whether the loader ran out of attempts, whether the refresh
\* failed, and whether the value returned is an entry older than the TTL.
Returned(op, key, force, outcome, value, exc, r, refreshFailed, age) ==
    [op |-> op, key |-> key, force |-> force, outcome |-> outcome,
     value |-> value, exc |-> exc, attempts |-> r.attempts,
     exhausted |-> r.raised, refreshFailed |-> refreshFailed,
     overTTL |-> age > CACHE_TTL_SECONDS]

NoCall == [raised |-> FALSE, exc |-> None, cause |-> None, value |-> NoValue,
           attempts |-> 0, delays |-> <<>>]

\* The loop of get_all_forms over the provider's answer: one submissions
\* call per form, then the record is stored under the form's id. A form
\* without a title stops the loop with a KeyError.
FormRecord_no_default(form, latest_submission) ==
    [id |-> form.id, title |-> form.title, created |-> form.created_at,
     latest_submission |-> latest_submission]

FormRecord(form, latest_submission) ==
    [id |-> form.id, title |-> form.title, created |-> form.created_at,
     latest_submission |-> IF latest_submission \in {None, ""}
                           THEN form.created_at ELSE latest_submission]

\* Variant of the store: a list to which every record is appended.
StoreForm_appends(cache, record) == Append(cache, record)

\* self.forms_cache[form['id']] = {...}: a dict keeps one record per id, at
\* the place where the id was stored first
StoreForm(cache, record) ==
    IF \E i \in 1..Len(cache) : cache[i].id = record.id
    THEN [i \in 1..Len(cache) |-> IF cache[i].id = record.id THEN record ELSE cache[i]]
    ELSE Append(cache, record)

RECURSIVE BuildForms(_, _, _, _)
BuildForms(forms, subs, i, acc) ==
    IF i > Len(forms)
    THEN [cache |-> acc, keyError |-> FALSE]
    ELSE LET form == forms[i]
             s == _call_with_retry(subs[i])
             latest_submission ==
                 IF ~s.raised /\ Len(s.value) > 0 THEN s.value[1].created_at ELSE None
         IN  IF form.title = Missing
             THEN [cache |-> acc, keyError |-> TRUE]
             ELSE BuildForms(forms, subs, i + 1,
                             StoreForm(acc, FormRecord(form, latest_submission)))

\* Variants of the stale fallback: never taken, always taken.
has_stale_forms_never == FALSE
has_stale_forms_always == TRUE

\* "if self.forms_cache": there is a stale listing to fall back on
has_stale_forms == forms_cache # <<>>

forms_cache_valid(force_refresh) ==
    /\ forms_cache # <<>>
    /\ ~is_cache_expired(forms_cache_timestamp, now)
    /\ ~force_refresh

get_all_forms(force_refresh, script, subs) ==
    LET r == _call_with_retry(script)
        b == BuildForms(r.value, subs, 1, <<>>)
        Ret(outcome, value, exc, call, refreshFailed, age) ==
            Returned("get_all_forms", FormsKey, force_refresh, outcome, value, exc,
                     call, refreshFailed, age)
        \* history: what the provider answered to this call
        Loader(l) == l @@ [listing |-> r.value, subs |-> subs]
    IN  IF forms_cache_valid(force_refresh)
        THEN /\ last' = Ret("value", forms_cache, None, NoCall, FALSE,
                            now - forms_cache_timestamp)
             /\ UNCHANGED <<now, cacheVars, good>>
        ELSE IF r.raised
        THEN \* except ExternalServiceError: the stale cache, or raise
             /\ last' = IF has_stale_forms
                        THEN Ret("value", forms_cache, None, r, TRUE,
                                 now - forms_cache_timestamp)
                        ELSE Ret("raise", NoValue, r.exc, r, TRUE, 0)
             /\ UNCHANGED <<now, cacheVars, good>>
        ELSE /\ now' = now
             /\ forms_cache' = b.cache
             /\ IF b.keyError
                THEN \* except Exception: the cache was cleared before the loop
                     /\ forms_cache_timestamp' = forms_cache_timestamp
                     /\ good' = good
                     /\ last' = Loader(IF b.cache # <<>>
                                       THEN Ret("value", b.cache, None, r, TRUE,
                                                now - forms_cache_timestamp)
                                       ELSE Ret("raise", NoValue, "KeyError", r, TRUE, 0))
                ELSE /\ forms_cache_timestamp' = now
                     /\ good' = Put(good, FormsKey, b.cache)
                     /\ last' = Loader(Ret("value", b.cache, None, r, FALSE, 0))
             /\ UNCHANGED <<products_cache, products_cache_timestamps,
                            form_metadata_cache, form_metadata_cache_timestamps>>

\* extract_moq_from_description on the descriptions of the model.
extract_moq_from_description(description) ==
    CASE description \in {"", "N/A", Missing} -> None
      [] description = "MOQ: 10" -> "10 units"
      [] OTHER -> None

RECURSIVE clean_products(_)
clean_products(products) ==
    IF products = <<>>
    THEN [error |-> FALSE, list |-> <<>>]
    ELSE LET product == Head(products)
             description == IF product.description = Missing
                            THEN "N/A" ELSE product.description
             extracted_moq == extract_moq_from_description(description)
             product_data ==
                 [name |-> IF product.name = Missing THEN "N/A" ELSE product.name,
                  price |-> IF product.price = Missing THEN "N/A" ELSE product.price,
                  description |-> description,
                  moq |-> IF product.moq \notin {Missing, ""} THEN product.moq
                          ELSE IF extracted_moq # None THEN extracted_moq
                          ELSE Missing,
                  quantity |-> product.quantity,
                  stock |-> product.stock]
             rest == clean_products(Tail(products))
         IN  IF ~product.dict \/ rest.error
             THEN [error |-> TRUE, list |-> <<>>]
             ELSE [error |-> FALSE, list |-> <<product_data>> \o rest.list]

\* "if form_id in self.products_cache": there is a stale list to fall back on
has_stale_products(form_id) == form_id \in DOMAIN products_cache

\* Variant of the handler of ExternalServiceError: the entry that is served
\* is stamped as if it had been refreshed.
products_kept_and_stamped(form_id) ==
    /\ products_cache_timestamps' = Put(products_cache_timestamps, form_id, now)
    /\ UNCHANGED <<forms_cache, forms_cache_timestamp, products_cache,
                   form_metadata_cache, form_metadata_cache_timestamps, good>>

\* except ExternalServiceError of get_products: nothing is stored
products_kept(form_id) ==
    UNCHANGED <<cacheVars, good>>

products_cache_valid(form_id, force_refresh) ==
    /\ form_id \in DOMAIN products_cache
    /\ ~is_cache_expired(Get(products_cache_timestamps, form_id, 0), now)
    /\ ~force_refresh

get_products(form_id, force_refresh, script) ==
    LET r == _call_with_retry(script)
        raw_products == IF r.value.has_products THEN r.value.products ELSE <<>>
        c == clean_products(raw_products)
        Ret(outcome, value, exc, call, refreshFailed, age) ==
            Returned("get_products", ProductsKey(form_id), force_refresh, outcome,
                     value, exc, call, refreshFailed, age)
        Stale == Ret("value", products_cache[form_id], None, r, TRUE,
                     now - Get(products_cache_timestamps, form_id, 0))
    IN  IF products_cache_valid(form_id, force_refresh)
        THEN /\ last' = Ret("value", products_cache[form_id], None, NoCall, FALSE,
                            now - Get(products_cache_timestamps, form_id, 0))
             /\ UNCHANGED <<now, cacheVars, good>>
        ELSE /\ now' = now
             /\ IF r.raised
                THEN \* except ExternalServiceError: the stale list, or raise
                     /\ last' = IF has_stale_products(form_id)
                                THEN Stale
                                ELSE Ret("raise", NoValue, r.exc, r, TRUE, 0)
                     /\ products_kept(form_id)
                ELSE IF c.error
                THEN \* except Exception: the stale list, or an empty one
                     /\ last' = IF has_stale_products(form_id)
                                THEN Stale
                                ELSE Ret("value", <<>>, None, r, TRUE, 0)
                     /\ UNCHANGED <<cacheVars, good>>
                ELSE /\ products_cache' = Put(products_cache, form_id, c.list)
                     /\ products_cache_timestamps' =
                            Put(products_cache_timestamps, form_id, now)
                     /\ good' = Put(good, ProductsKey(form_id), c.list)
                     /\ last' = Ret("value", c.list, None, r, FALSE, 0)
                     /\ UNCHANGED <<forms_cache, forms_cache_timestamp,
                                    form_metadata_cache, form_metadata_cache_timestamps>>

\* The keywords of get_form_metadata that occur in a (lowercased) string of
\* the model.
Mentions(text) ==
    CASE text = "supplier" -> {"supplier"}
      [] text = "closing" -> {"closing"}
      [] OTHER -> {}

DeadlineKeywords == {"deadline", "close", "closing", "end date", "due date"}
MonthNames == {"january", "february", "march", "april", "may", "june", "july",
               "august", "september", "october", "november", "december"}

\* form_title.replace('|', '-').split('-'), each part stripped, and the month
\* names that occur in a part.
TitleParts(form_title) ==
    IF form_title = "January GB - Acme" THEN <<"January GB", "Acme">>
    ELSE <<form_title>>

MonthsIn(part) ==
    CASE part \in {"January GB", "January GB - Acme"} -> {"january"}
      [] part = "February GB" -> {"february"}
      [] OTHER -> {}

EmptyMetadata(properties) ==
    [properties |-> properties, vendor |-> None, suppliers |-> <<>>, notes |-> None,
     deadline |-> None, closing_date |-> None]

\* The dict returned when nothing was cached: its properties are an empty dict.
DefaultMetadata == EmptyMetadata([title |-> Missing])

QuestionStep(metadata, question) ==
    LET q_text == question.text
        q_name == question.name
        value == IF question.text # "" THEN question.text ELSE question.defaultValue
        m1 == IF /\ {"vendor", "supplier"} \cap (Mentions(q_text) \cup Mentions(q_name)) # {}
                 /\ value # ""
                 /\ "vendor" \notin Mentions(value)
              THEN [metadata EXCEPT !.vendor = value, !.suppliers = Append(@, value)]
              ELSE metadata
        m2 == IF /\ DeadlineKeywords \cap (Mentions(q_text) \cup Mentions(q_name)) # {}
                 /\ value # ""
              THEN [m1 EXCEPT !.deadline = value, !.closing_date = value]
              ELSE m1
    IN  IF \/ "note" \in (Mentions(q_text) \cup Mentions(q_name))
           \/ "info" \in Mentions(q_text)
        THEN [m2 EXCEPT !.notes = question.text]
        ELSE m2

RECURSIVE QuestionsLoop(_, _)
QuestionsLoop(metadata, questions) ==
    IF questions = <<>> THEN metadata
    ELSE QuestionsLoop(QuestionStep(metadata, Head(questions)), Tail(questions))

TitleStep(metadata, form_title) ==
    LET parts == TitleParts(form_title)
        potential_vendor == parts[Len(parts)]
    IN  IF Len(parts) > 1 /\ potential_vendor # "" /\ MonthsIn(potential_vendor) = {}
        THEN [metadata EXCEPT
                !.vendor = IF @ = None THEN potential_vendor ELSE @,
                !.suppliers = IF \E i \in 1..Len(@) : @[i] = potential_vendor
                              THEN @ ELSE Append(@, potential_vendor)]
        ELSE metadata

BuildMetadata(properties, questions) ==
    TitleStep(QuestionsLoop(EmptyMetadata(properties), questions), properties.title)

\* "if form_id in self.form_metadata_cache"
has_stale_metadata(form_id) == form_id \in DOMAIN form_metadata_cache

form_metadata_cache_valid(form_id, force_refresh) ==
    /\ form_id \in DOMAIN form_metadata_cache
    /\ ~is_cache_expired(Get(form_metadata_cache_timestamps, form_id, 0), now)
    /\ ~force_refresh

\* The two client calls of get_form_metadata are made directly, once each.
get_form_metadata(form_id, force_refresh, properties, questions) ==
    LET calls == IF properties.ok THEN 2 ELSE 1
        failed == ~properties.ok \/ ~questions.ok
        r == [NoCall EXCEPT !.attempts = calls]
        Ret(outcome, value, exc, refreshFailed, age) ==
            Returned("get_form_metadata", MetadataKey(form_id), force_refresh, outcome,
                     value, exc, r, refreshFailed, age)
        metadata == BuildMetadata(properties.val, questions.val)
    IN  IF form_metadata_cache_valid(form_id, force_refresh)
        THEN /\ last' = Returned("get_form_metadata", MetadataKey(form_id),
                                 force_refresh, "value", form_metadata_cache[form_id],
                                 None, NoCall, FALSE,
                                 now - Get(form_metadata_cache_timestamps, form_id, 0))
             /\ UNCHANGED <<now, cacheVars, good>>
        ELSE /\ now' = now
             /\ IF failed
                THEN \* except Exception: the stale metadata, or the default dict
                     /\ last' = IF has_stale_metadata(form_id)
                                THEN Ret("value", form_metadata_cache[form_id], None, TRUE,
                                         now - Get(form_metadata_cache_timestamps,
                                                   form_id, 0))
                                ELSE Ret("value", DefaultMetadata, None, TRUE, 0)
                     /\ UNCHANGED <<cacheVars, good>>
                ELSE /\ form_metadata_cache' = Put(form_metadata_cache, form_id, metadata)
                     /\ form_metadata_cache_timestamps' =
                            Put(form_metadata_cache_timestamps, form_id, now)
                     /\ good' = Put(good, MetadataKey(form_id), metadata)
                     /\ last' = Ret("value", metadata, None, FALSE, 0)
                     /\ UNCHANGED <<forms_cache, forms_cache_timestamp,
                                    products_cache, products_cache_timestamps>>

-----------------------------------------------------------------------------
(* Steps *)

Idle == Returned("init", <<"none">>, FALSE, "none", NoValue, None, NoCall, FALSE, 0)

NoRun == [fn |-> "none", n |-> 0, base |-> 0, script |-> <<>>, run |-> NoCall,
          blocked |-> FALSE]

\* handle_message before a message: no position, no locals.
NoClassifier == [calls |-> 0, listing |-> <<>>, answer |-> "", attempts |-> 0,
                 exhausted |-> FALSE]

NoTask ==
    [pc |-> "idle", text |-> "", available_forms |-> <<>>, analyzed |-> FALSE,
     pass |-> 0, todo |-> <<>>, form_matches |-> <<>>, seen |-> <<>>, fetch |-> <<>>,
     classifier |-> NoClassifier, via |-> "none",
     result |-> [type |-> "none", ids |-> <<>>], exc |-> None,
     multi |-> FALSE, forms_data |-> <<>>, model_calls |-> 0, replies |-> <<>>,
     refreshed |-> {}]

\* history: the keys that the calls of this message have refreshed, and when
Noted(t, l) ==
    IF l.attempts > 0 /\ ~l.refreshFailed /\ l.outcome = "value"
    THEN [t EXCEPT !.refreshed = @ \cup {[key |-> l.key, at |-> now]}]
    ELSE t

\* No call of fuzzy_match_product_name yet.
NoScore == [called |-> FALSE, message |-> <<>>, product_name |-> <<>>, score |-> 0]

\* No command yet, and nobody in a conversation.
NoUpdate == [command |-> "none", user |-> None, arg |-> None]

NoHistory == [first |-> None, by_admin |-> {}]

NoConversation ==
    [status |-> "END", report |-> "END", user_data |-> <<>>, selected |-> None,
     status_update |-> None, report_update |-> None, newest |-> None]

\* The clock reads seconds since 1970: at start-up it is far more than one
\* TTL past the timestamp 0 that an empty cache carries.
StartTime == CACHE_TTL_SECONDS + 1

Init ==
    /\ now = StartTime
    /\ forms_cache = <<>>
    /\ forms_cache_timestamp = 0
    /\ products_cache = <<>>
    /\ products_cache_timestamps = <<>>
    /\ form_metadata_cache = <<>>
    /\ form_metadata_cache_timestamps = <<>>
    /\ good = <<>>
    /\ last = Idle
    /\ retry = NoRun
    /\ task = NoTask
    /\ scored = NoScore
    /\ admins = <<>>
    /\ admin_history = NoHistory
    /\ update = NoUpdate
    /\ conv = NoConversation

\* The clock moves on between two calls, one TTL at a time: an entry is seen
\* at the ages 0, TTL (still fresh), 2 * TTL (expired), ...
Tick ==
    /\ now + CACHE_TTL_SECONDS <= StartTime + MaxTicks * CACHE_TTL_SECONDS
    /\ now' = now + CACHE_TTL_SECONDS
    /\ UNCHANGED <<cacheVars, good, last, retry, task, scored, botVars>>

\* The flag is drawn where it decides something: a call that would not be
\* served from the cache anyway loads with or without it.
Flags(valid) == IF valid THEN BOOLEAN ELSE {FALSE}

Answer(script) == script[Len(script)]

GetAllForms(listings, subScripts) ==
    \E force_refresh \in Flags(forms_cache_valid(FALSE)),
       script \in Scripts(listings, max_retries, CacheErrors) :
        \E subs \in [1..(IF Answer(script).ok THEN Len(Answer(script).val) ELSE 0)
                      -> subScripts] :
            /\ get_all_forms(force_refresh, script, subs)
            /\ UNCHANGED <<retry, task, scored, botVars>>

GetProducts(form_ids, answers) ==
    \E form_id \in form_ids, script \in Scripts(answers, max_retries, CacheErrors) :
      \E force_refresh \in Flags(products_cache_valid(form_id, FALSE)) :
        /\ get_products(form_id, force_refresh, script)
        /\ UNCHANGED <<retry, task, scored, botVars>>

GetFormMetadata(form_ids, titles, questions) ==
    \E form_id \in form_ids,
       p \in {Ok(t) : t \in titles} \cup {Err("ConnectionError")},
       q \in {Ok(a) : a \in questions} \cup {Err("ConnectionError")} :
      \E force_refresh \in Flags(form_metadata_cache_valid(form_id, FALSE)) :
        /\ get_form_metadata(form_id, force_refresh, p, q)
        /\ UNCHANGED <<retry, task, scored, botVars>>

\* The entries that are no older than the TTL.
FreshKeys ==
    {k \in {FormsKey} : forms_cache # <<>>
                        /\ now - forms_cache_timestamp <= CACHE_TTL_SECONDS}
    \cup {ProductsKey(f) : f \in {x \in DOMAIN products_cache :
              now - Get(products_cache_timestamps, x, 0) <= CACHE_TTL_SECONDS}}
    \cup {MetadataKey(f) : f \in {x \in DOMAIN form_metadata_cache :
              now - Get(form_metadata_cache_timestamps, x, 0) <= CACHE_TTL_SECONDS}}

\* The body of refresh_command, with what the history keeps of it.
CachesCleared ==
    /\ clear_all_caches
    /\ good' = <<>>
    /\ last' = Returned("refresh", <<"all">>, FALSE, "none", FreshKeys, None, NoCall,
                        FALSE, 0)

refresh_command ==
    /\ CachesCleared
    /\ UNCHANGED <<now, retry, task, scored, botVars>>

OkSubScripts == { <<Ok(<<[created_at |-> "2024-04-01"]>>)>> }

Next ==
    \/ Tick
    \/ GetAllForms(Listings, OkSubScripts)
    \/ GetProducts({"f1"}, PropertyAnswers)
    \/ refresh_command

Spec == Init /\ [][Next]_vars

NextForms ==
    \/ Tick
    \/ GetAllForms(Listings, SubScripts)
    \/ refresh_command

SpecForms == Init /\ [][NextForms]_vars

NextMetadata ==
    \/ Tick
    \/ GetFormMetadata(FormIds, TitleAnswers, QuestionAnswers)
    \/ refresh_command

SpecMetadata == Init /\ [][NextMetadata]_vars

NextAll ==
    \/ Tick
    \/ GetAllForms({<<RawForms[1]>>, <<RawForms[1], RawForms[2]>>}, OkSubScripts)
    \/ GetProducts({"f1"}, {Properties(<<Reta>>), Properties(<<Reta, Tirz>>)})
    \/ GetFormMetadata({"f1"}, {[title |-> "January GB - Acme"]}, QuestionAnswers)
    \/ refresh_command

SpecAll == Init /\ [][NextAll]_vars

\* The three caches side by side, with two forms: the listing, the products
\* of each form and the metadata of each form.
NextKeys ==
    \/ Tick
    \/ GetAllForms({<<RawForms[1], RawForms[2]>>}, OkSubScripts)
    \/ GetProducts(FormIds, {Properties(<<Reta>>)})
    \/ GetFormMetadata(FormIds, {[title |-> "January GB - Acme"]}, {<<>>})
    \/ refresh_command

SpecKeys == Init /\ [][NextKeys]_vars

\* The retry loops on their own: JotFormHelper's, whose max_retries and
\* backoff_seconds are read from the environment, and the OpenAI one, whose
\* caller passes them.
CallWithRetry ==
    \E n \in 0..MaxAttempts, base \in 1..MaxBackoff :
        \E script \in Scripts({"answer"}, n, Errors) :
            /\ retry' = [fn |-> "_call_with_retry", n |-> n, base |-> base,
                         script |-> script,
                         run |-> RetryFrom(script, n, base, 1, <<>>),
                         blocked |-> FALSE]
            /\ UNCHANGED <<now, cacheVars, good, last, task, scored, botVars>>

CallOpenAIWithRetry ==
    \E n \in 0..MaxAttempts, base \in 1..MaxBackoff :
        \E script \in Scripts({"answer"}, n, Errors) :
            /\ retry' = [fn |-> "call_openai_with_retry", n |-> n, base |-> base,
                         script |-> script,
                         run |-> call_openai_with_retry(script, n, base),
                         blocked |-> FALSE]
            /\ UNCHANGED <<now, cacheVars, good, last, task, scored, botVars>>

NextRetry ==
    \/ CallWithRetry
    \/ CallOpenAIWithRetry

SpecRetry == Init /\ [][NextRetry]_vars

\* The retry loops on a provider of which every attempt is known, those
\* after the first answer too: what a further attempt would have returned.
FullScripts(n) ==
    [1..n -> {Ok("answer"), Ok("later answer"), Err("ConnectionError")}]

CallWithRetryOnFullScript ==
    \E n \in 1..MaxAttempts, base \in 1..MaxBackoff :
        \E script \in FullScripts(n) :
            /\ retry' = [fn |-> "_call_with_retry", n |-> n, base |-> base,
                         script |-> script,
                         run |-> RetryFrom(script, n, base, 1, <<>>),
                         blocked |-> FALSE]
            /\ UNCHANGED <<now, cacheVars, good, last, task, scored, botVars>>

CallOpenAIWithRetryOnFullScript ==
    \E n \in 1..MaxAttempts, base \in 1..MaxBackoff :
        \E script \in FullScripts(n) :
            /\ retry' = [fn |-> "call_openai_with_retry", n |-> n, base |-> base,
                         script |-> script,
                         run |-> call_openai_with_retry(script, n, base),
                         blocked |-> FALSE]
            /\ UNCHANGED <<now, cacheVars, good, last, task, scored, botVars>>

NextFirstSuccess ==
    \/ CallWithRetryOnFullScript
    \/ CallOpenAIWithRetryOnFullScript

SpecFirstSuccess == Init /\ [][NextFirstSuccess]_vars

\* The retry loops on a provider that may also never answer an attempt.
Hang == [ok |-> FALSE, val |-> NoValue, err |-> "<never returns>"]

HangScripts(n) == [1..n -> {Ok("answer"), Err("ConnectionError"), Hang}]

\* The attempts at which a run of the loop stays: an attempt the loop gets
\* to and that never returns.
BlocksAt(script, n) ==
    {k \in 1..n : /\ script[k] = Hang
                  /\ \A j \in 1..(k - 1) : ~script[j].ok /\ script[j] # Hang}

\* call_fn(timeout=timeout_seconds): the client ends an attempt that got no
\* answer in time with an error.
WithTimeout(script) ==
    [i \in 1..Len(script) |-> IF script[i] = Hang THEN Err("APITimeoutError")
                              ELSE script[i]]

\* _call_with_retry calls call_fn() as it is: nothing ends an attempt.
CallWithRetryOnHang ==
    \E n \in 1..MaxAttempts, base \in {backoff_seconds} :
        \E script \in HangScripts(n) :
            /\ retry' = IF BlocksAt(script, n) # {}
                         THEN [fn |-> "_call_with_retry", n |-> n, base |-> base,
                               script |-> script,
                               run |-> [NoCall EXCEPT !.attempts =
                                           CHOOSE k \in BlocksAt(script, n) : TRUE],
                               blocked |-> TRUE]
                         ELSE [fn |-> "_call_with_retry", n |-> n, base |-> base,
                               script |-> script,
                               run |-> RetryFrom(script, n, base, 1, <<>>),
                               blocked |-> FALSE]
            /\ UNCHANGED <<now, cacheVars, good, last, task, scored, botVars>>

CallOpenAIWithRetryOnHang ==
    \E n \in 1..MaxAttempts, base \in {backoff_seconds} :
        \E script \in HangScripts(n) :
            /\ retry' = [fn |-> "call_openai_with_retry", n |-> n, base |-> base,
                         script |-> script,
                         run |-> call_openai_with_retry(WithTimeout(script), n, base),
                         blocked |-> FALSE]
            /\ UNCHANGED <<now, cacheVars, good, last, task, scored, botVars>>

NextTimeout ==
    \/ CallWithRetryOnHang
    \/ CallOpenAIWithRetryOnHang

SpecTimeout == Init /\ [][NextTimeout]_vars

-----------------------------------------------------------------------------
(* Text: Python strings as sequences of characters *)

UpperCase == <<"A", "B", "C", "D", "E", "F", "G", "H", "I", "J", "K", "L", "M",
               "N", "O", "P", "Q", "R", "S", "T", "U", "V", "W", "X", "Y", "Z">>
LowerCase == <<"a", "b", "c", "d", "e", "f", "g", "h", "i", "j", "k", "l", "m",
               "n", "o", "p", "q", "r", "s", "t", "u", "v", "w", "x", "y", "z">>
DigitChars == {"0", "1", "2", "3", "4", "5", "6", "7", "8", "9"}
SpaceChars == {" "}

\* \w of the re module
WordChars ==
    {UpperCase[i] : i \in 1..26} \cup {LowerCase[i] : i \in 1..26}
    \cup DigitChars \cup {"_"}

\* The characters of the strings of the model.
Chars(s) ==
    CASE s = "" ->
           <<>>
      [] s = "n/a" ->
           <<"n", "/", "a">>
      [] s = "ret30" ->
           <<"r", "e", "t", "3", "0">>
      [] s = "r" ->
           <<"r">>
      [] s = "re" ->
           <<"r", "e">>
      [] s = "ret" ->
           <<"r", "e", "t">>
      [] s = "reta" ->
           <<"r", "e", "t", "a">>
      [] s = "Retatrutide" ->
           <<"R", "e", "t", "a", "t", "r", "u", "t", "i", "d", "e">>
      [] s = "30" ->
           <<"3", "0">>
      [] s = "300" ->
           <<"3", "0", "0">>
      [] s = "bpc" ->
           <<"b", "p", "c">>
      [] s = " " ->
           <<" ">>
      [] s = "Reta" ->
           <<"R", "e", "t", "a">>
      [] s = "BPC 157" ->
           <<"B", "P", "C", " ", "1", "5", "7">>
      [] s = "N/A" ->
           <<"N", "/", "A">>
      [] s = "January GB" ->
           <<"J", "a", "n", "u", "a", "r", "y", " ", "G", "B">>
      [] s = "February GB" ->
           <<"F", "e", "b", "r", "u", "a", "r", "y", " ", "G", "B">>
      [] s = "January GB II" ->
           <<"J", "a", "n", "u", "a", "r", "y", " ", "G", "B", " ", "I", "I">>
      [] s = "Retatrutide 30" ->
           <<"R", "e", "t", "a", "t", "r", "u", "t", "i", "d", "e", " ", "3", "0">>
      [] s = "Tirzepatide 50" ->
           <<"T", "i", "r", "z", "e", "p", "a", "t", "i", "d", "e", " ", "5", "0">>
      [] s = "price of reta 30" ->
           <<"p", "r", "i", "c", "e", " ", "o", "f", " ", "r", "e", "t", "a", " ", "3", "0">>
      [] s = "what's in the current GB" ->
           <<"w", "h", "a", "t", "'", "s", " ", "i", "n", " ", "t", "h", "e", " ", "c", "u", "r", "r", "e", "n", "t", " ", "G", "B">>
      [] s = "reta 30 or tirzepatide" ->
           <<"r", "e", "t", "a", " ", "3", "0", " ", "o", "r", " ", "t", "i", "r", "z", "e", "p", "a", "t", "i", "d", "e">>
      [] s = "reta 30 gb" ->
           <<"r", "e", "t", "a", " ", "3", "0", " ", "g", "b">>
      [] s = "feb prices" ->
           <<"f", "e", "b", " ", "p", "r", "i", "c", "e", "s">>
      [] s = "reta 30 jan" ->
           <<"r", "e", "t", "a", " ", "3", "0", " ", "j", "a", "n">>
      [] s = "hello" ->
           <<"h", "e", "l", "l", "o">>
      [] s = "UNCLEAR" ->
           <<"U", "N", "C", "L", "E", "A", "R">>
      [] s = "f1" ->
           <<"f", "1">>
      [] s = "f2" ->
           <<"f", "2">>
      [] s = "f4" ->
           <<"f", "4">>
      [] s = "f9" ->
           <<"f", "9">>
      [] s = " f2 " ->
           <<" ", "f", "2", " ">>
      [] s = "the form is f2" ->
           <<"t", "h", "e", " ", "f", "o", "r", "m", " ", "i", "s", " ", "f", "2">>
      [] s = "2024-01-05" ->
           <<"2", "0", "2", "4", "-", "0", "1", "-", "0", "5">>
      [] s = "2024-02-05" ->
           <<"2", "0", "2", "4", "-", "0", "2", "-", "0", "5">>
      [] s = "2024-01-20" ->
           <<"2", "0", "2", "4", "-", "0", "1", "-", "2", "0">>
      [] s = "2024-03-05" ->
           <<"2", "0", "2", "4", "-", "0", "3", "-", "0", "5">>
      [] s = "2024-04-01" ->
           <<"2", "0", "2", "4", "-", "0", "4", "-", "0", "1">>

\* str.lower()
LowerChar(c) ==
    IF \E i \in 1..26 : UpperCase[i] = c
    THEN LowerCase[CHOOSE i \in 1..26 : UpperCase[i] = c]
    ELSE c

lower(s) == [i \in 1..Len(s) |-> LowerChar(s[i])]

\* "p in s"
Contains(s, p) ==
    \E i \in 0..(Len(s) - Len(p)) : SubSeq(s, i + 1, i + Len(p)) = p

\* str.replace(a, b) for single characters
replace(s, a, b) == [i \in 1..Len(s) |-> IF s[i] = a THEN b ELSE s[i]]

\* str.strip()
RECURSIVE lstrip(_)
lstrip(s) == IF s # <<>> /\ Head(s) \in SpaceChars THEN lstrip(Tail(s)) ELSE s

RECURSIVE rstrip(_)
rstrip(s) ==
    IF s # <<>> /\ s[Len(s)] \in SpaceChars
    THEN rstrip(SubSeq(s, 1, Len(s) - 1)) ELSE s

strip(s) == rstrip(lstrip(s))

\* The maximal runs of characters of a class, in order: re.findall(r'\d+', s)
\* for the digits, and s.split() for the characters that are no whitespace.
RECURSIVE Runs(_, _, _, _, _)
Runs(s, class, i, cur, acc) ==
    LET closed == IF cur = <<>> THEN acc ELSE Append(acc, cur)
    IN  IF i > Len(s) THEN closed
        ELSE IF s[i] \in class
             THEN Runs(s, class, i + 1, Append(cur, s[i]), acc)
             ELSE Runs(s, class, i + 1, <<>>, closed)

CharsOf(s) == {s[i] : i \in 1..Len(s)}

findall_digits(s) == Runs(s, DigitChars, 1, <<>>, <<>>)
split(s) == Runs(s, CharsOf(s) \ SpaceChars, 1, <<>>, <<>>)

\* \b at the gap before position i of s
WordBoundary(s, i) ==
    LET before == i > 1 /\ s[i - 1] \in WordChars
        after == i <= Len(s) /\ s[i] \in WordChars
    IN  before # after

\* re.search(r'\b' + re.escape(p) + r'(?:\s|\d|$)', s)
search_prefix(s, p) ==
    \E i \in 1..(Len(s) - Len(p) + 1) :
        /\ SubSeq(s, i, i + Len(p) - 1) = p
        /\ WordBoundary(s, i)
        /\ \/ i + Len(p) > Len(s)
           \/ s[i + Len(p)] \in SpaceChars \cup DigitChars

\* re.search(rf'\b{word}\b', s)
search_word(s, p) ==
    \E i \in 1..(Len(s) - Len(p) + 1) :
        /\ SubSeq(s, i, i + Len(p) - 1) = p
        /\ WordBoundary(s, i)
        /\ WordBoundary(s, i + Len(p))

RECURSIVE SumSeq(_)
SumSeq(s) == IF s = <<>> THEN 0 ELSE Head(s) + SumSeq(Tail(s))

Min(a, b) == IF a <= b THEN a ELSE b

-----------------------------------------------------------------------------
(* fuzzy_match_product_name *)

\* Variant of the numbers check: a number of the name is looked for in the
\* message as a string, not among the numbers of the message.
NumericBonus_substring(message_lower, product_name_lower) ==
    LET product_numbers == findall_digits(product_name_lower)
    IN  IF /\ product_numbers # <<>>
           /\ \A k \in 1..Len(product_numbers) :
                 Contains(message_lower, product_numbers[k])
        THEN 3 ELSE 0

NumericBonus(message_lower, product_name_lower) ==
    LET product_numbers == findall_digits(product_name_lower)
        numbers_in_message == findall_digits(message_lower)
    IN  IF /\ product_numbers # <<>>
           /\ \A k \in 1..Len(product_numbers) :
                 \E j \in 1..Len(numbers_in_message) :
                     numbers_in_message[j] = product_numbers[k]
        THEN 3 ELSE 0

PrefixBonus(message_lower, main_word) ==
    IF Len(main_word) >= 4
    THEN SumSeq([prefix_len \in 1..5 |->
                    IF /\ prefix_len <= Len(main_word)
                       /\ search_prefix(message_lower, SubSeq(main_word, 1, prefix_len))
                    THEN Min(prefix_len, 3) ELSE 0])
    ELSE 0

WholeWordBonus(message_lower, main_word) ==
    IF Contains(message_lower, main_word) THEN 2 ELSE 0

Variations(main_word) ==
    << replace(main_word, "e", "i"), replace(main_word, "i", "e"),
       replace(main_word, "o", "a"), replace(main_word, "a", "o") >>

VariationBonus(message_lower, main_word) ==
    SumSeq([k \in 1..4 |->
               LET var == Variations(main_word)[k]
               IN  IF Contains(message_lower, var) /\ Len(var) > 3 THEN 1 ELSE 0])

\* Variant of fuzzy_match_product_name: without the check for the exact match.
fuzzy_match_product_name_no_exact(message_lower, product_name_lower) ==
    LET product_words == split(product_name_lower)
        main_word == product_words[1]
    IN  IF product_words = <<>> THEN 0
        ELSE NumericBonus(message_lower, product_name_lower)
             + PrefixBonus(message_lower, main_word)
             + WholeWordBonus(message_lower, main_word)
             + VariationBonus(message_lower, main_word)

fuzzy_match_product_name(message_lower, product_name_lower) ==
    LET product_words == split(product_name_lower)
        main_word == product_words[1]
    IN  IF product_words = <<>> THEN 0
        ELSE IF Contains(message_lower, product_name_lower) THEN 10
        ELSE NumericBonus(message_lower, product_name_lower)
             + PrefixBonus(message_lower, main_word)
             + WholeWordBonus(message_lower, main_word)
             + VariationBonus(message_lower, main_word)

\* fuzzy_match_product_name on its own, as find_form_by_product_names calls
\* it: on the lowercased message and the lowercased name of a product. The
\* messages are up to MaxWords words of QueryWords with a space between them.
QueryWords == {"r", "re", "ret", "reta", "ret30", "Retatrutide", "30", "300", "bpc"}

ProductNames == {"", " ", "Retatrutide 30", "Reta", "BPC 157"}

RECURSIVE Join(_)
Join(words) ==
    IF words = <<>> THEN <<>>
    ELSE IF Len(words) = 1 THEN Chars(words[1])
    ELSE Chars(words[1]) \o <<" ">> \o Join(Tail(words))

Messages == { Join(ws) : ws \in UNION { [1..n -> QueryWords] : n \in 0..MaxWords } }

Score ==
    /\ ~scored.called
    /\ \E message \in Messages, name \in ProductNames :
          scored' = [called |-> TRUE, message |-> message, product_name |-> Chars(name),
                     score |-> fuzzy_match_product_name(lower(message),
                                                        lower(Chars(name)))]
    /\ UNCHANGED <<now, cacheVars, good, last, retry, task, botVars>>

NextScore == Score

SpecScore == Init /\ [][NextScore]_vars

-----------------------------------------------------------------------------
(* The resolver: is_form_specific_query, detect_month_in_message,            *)
(* find_forms_by_month and the two sorts of analyze_message_for_gb and       *)
(* find_form_by_product_names                                                *)

form_keywords ==
    << <<"f", "o", "r", "m">>,
       <<"g", "b">>,
       <<"g", "&", "b">>,
       <<"g", "r", "o", "u", "p", " ", "b", "u", "y">>,
       <<"g", "r", "o", "u", "p", "b", "u", "y">>,
       <<"o", "r", "d", "e", "r", " ", "f", "o", "r", "m">>,
       <<"c", "u", "r", "r", "e", "n", "t">>,
       <<"l", "a", "t", "e", "s", "t">>,
       <<"n", "e", "w", "e", "s", "t">>,
       <<"r", "e", "c", "e", "n", "t">>,
       <<"t", "h", "i", "s", " ", "m", "o", "n", "t", "h">>,
       <<"h", "a", "l", "l", "o", "w", "e", "e", "n">>,
       <<"f", "i", "r", "e", "w", "o", "r", "k", "s">>,
       <<"h", "o", "l", "i", "d", "a", "y">>,
       <<"e", "x", "p", "o">>,
       <<"n", "o", "v", "e", "m", "b", "e", "r">>,
       <<"o", "c", "t", "o", "b", "e", "r">>,
       <<"j", "a", "n", "u", "a", "r", "y">>,
       <<"f", "e", "b", "r", "u", "a", "r", "y">>,
       <<"m", "a", "r", "c", "h">>,
       <<"a", "p", "r", "i", "l">>,
       <<"m", "a", "y">>,
       <<"j", "u", "n", "e">>,
       <<"j", "u", "l", "y">>,
       <<"a", "u", "g", "u", "s", "t">>,
       <<"s", "e", "p", "t", "e", "m", "b", "e", "r">>,
       <<"d", "e", "c", "e", "m", "b", "e", "r">> >>

months ==
    << <<"j", "a", "n", "u", "a", "r", "y">>,
       <<"f", "e", "b", "r", "u", "a", "r", "y">>,
       <<"m", "a", "r", "c", "h">>,
       <<"a", "p", "r", "i", "l">>,
       <<"m", "a", "y">>,
       <<"j", "u", "n", "e">>,
       <<"j", "u", "l", "y">>,
       <<"a", "u", "g", "u", "s", "t">>,
       <<"s", "e", "p", "t", "e", "m", "b", "e", "r">>,
       <<"o", "c", "t", "o", "b", "e", "r">>,
       <<"n", "o", "v", "e", "m", "b", "e", "r">>,
       <<"d", "e", "c", "e", "m", "b", "e", "r">>,
       <<"j", "a", "n">>,
       <<"f", "e", "b">>,
       <<"m", "a", "r">>,
       <<"a", "p", "r">>,
       <<"j", "u", "n">>,
       <<"j", "u", "l">>,
       <<"a", "u", "g">>,
       <<"s", "e", "p">>,
       <<"o", "c", "t">>,
       <<"n", "o", "v">>,
       <<"d", "e", "c">> >>

month_mapping(month) ==
    CASE month = <<"j", "a", "n">> -> <<"j", "a", "n", "u", "a", "r", "y">>
      [] month = <<"f", "e", "b">> -> <<"f", "e", "b", "r", "u", "a", "r", "y">>
      [] month = <<"m", "a", "r">> -> <<"m", "a", "r", "c", "h">>
      [] month = <<"a", "p", "r">> -> <<"a", "p", "r", "i", "l">>
      [] month = <<"j", "u", "n">> -> <<"j", "u", "n", "e">>
      [] month = <<"j", "u", "l">> -> <<"j", "u", "l", "y">>
      [] month = <<"a", "u", "g">> -> <<"a", "u", "g", "u", "s", "t">>
      [] month = <<"s", "e", "p">> -> <<"s", "e", "p", "t", "e", "m", "b", "e", "r">>
      [] month = <<"o", "c", "t">> -> <<"o", "c", "t", "o", "b", "e", "r">>
      [] month = <<"n", "o", "v">> -> <<"n", "o", "v", "e", "m", "b", "e", "r">>
      [] month = <<"d", "e", "c">> -> <<"d", "e", "c", "e", "m", "b", "e", "r">>
      [] OTHER -> month


\* any(keyword in message_lower for keyword in form_keywords)
is_form_specific_query(message_text) ==
    LET message_lower == lower(Chars(message_text))
    IN  \E k \in 1..Len(form_keywords) : Contains(message_lower, form_keywords[k])

\* The first month of the list that occurs as a word, as its full name; the
\* empty sequence stands for None.
RECURSIVE DetectFrom(_, _)
DetectFrom(message_lower, k) ==
    IF k > Len(months) THEN <<>>
    ELSE IF search_word(message_lower, months[k]) THEN month_mapping(months[k])
    ELSE DetectFrom(message_lower, k + 1)

detect_month_in_message(message_text) == DetectFrom(lower(Chars(message_text)), 1)

\* The ids of a listing, in the order of the dict.
RECURSIVE SelectIds(_, _)
SelectIds(available_forms, keep) ==
    IF available_forms = <<>> THEN <<>>
    ELSE (IF Head(available_forms).id \in keep THEN <<Head(available_forms).id>> ELSE <<>>)
         \o SelectIds(Tail(available_forms), keep)

FormIdsOf(available_forms) ==
    [i \in 1..Len(available_forms) |-> available_forms[i].id]

find_forms_by_month(month_name, available_forms) ==
    SelectIds(available_forms,
              {available_forms[i].id : i \in
                  {j \in 1..Len(available_forms) :
                      Contains(lower(Chars(available_forms[j].title)), lower(month_name))}})

\* Python's order of str, on the characters of the timestamps.
CharOrder == <<" ", "-", "0", "1", "2", "3", "4", "5", "6", "7", "8", "9", ":">>
Ord(c) == CHOOSE i \in 1..Len(CharOrder) : CharOrder[i] = c

RECURSIVE StrLess(_, _)
StrLess(a, b) ==
    IF b = <<>> THEN FALSE
    ELSE IF a = <<>> THEN TRUE
    ELSE IF Head(a) = Head(b) THEN StrLess(Tail(a), Tail(b))
    ELSE Ord(Head(a)) < Ord(Head(b))

\* sorted(items, key=..., reverse=True) on items that carry their key as
\* .rank: descending, and items of equal key keep their order.
RECURSIVE InsertDesc(_, _)
InsertDesc(s, x) ==
    IF s = <<>> THEN <<x>>
    ELSE IF Head(s).rank >= x.rank THEN <<Head(s)>> \o InsertDesc(Tail(s), x)
    ELSE <<x>> \o s

RECURSIVE sorted_reverse(_)
sorted_reverse(items) ==
    IF items = <<>> THEN <<>>
    ELSE InsertDesc(sorted_reverse(SubSeq(items, 1, Len(items) - 1)), items[Len(items)])

\* Variant of the listing for the classifier: the forms as the dict has them.
sorted_forms_as_listed(available_forms) == available_forms

\* The listing of analyze_message_for_gb for the classifier: every form,
\* by latest_submission, most recent first.
sorted_forms(available_forms) ==
    LET key(i) == Chars(available_forms[i].latest_submission)
        rank(i) == Cardinality({j \in 1..Len(available_forms) : StrLess(key(j), key(i))})
        ranked == sorted_reverse([i \in 1..Len(available_forms) |->
                                     [form |-> available_forms[i], rank |-> rank(i)]])
    IN  [i \in 1..Len(ranked) |-> ranked[i].form]

\* Variant of the score of one form: the products without a name count too.
RECURSIVE total_score_with_placeholder(_, _)
total_score_with_placeholder(message_lower, products) ==
    IF products = <<>> THEN 0
    ELSE fuzzy_match_product_name(message_lower, lower(Chars(Head(products).name)))
         + total_score_with_placeholder(message_lower, Tail(products))

\* The score of one form in find_form_by_product_names: the sum over the
\* products that have a name.
RECURSIVE total_score(_, _)
total_score(message_lower, products) ==
    IF products = <<>> THEN 0
    ELSE LET product_name == Head(products).name
             match_score == fuzzy_match_product_name(message_lower,
                                                     lower(Chars(product_name)))
         IN  (IF product_name \in {"", "N/A"} \/ match_score <= 0 THEN 0 ELSE match_score)
             + total_score(message_lower, Tail(products))

\* Variant of the end of find_form_by_product_names: the matches as found.
sorted_matches_as_found(form_matches) ==
    [i \in 1..Len(form_matches) |-> form_matches[i].form_id]

\* The end of find_form_by_product_names(return_all_matches=True): the ids of
\* form_matches by score, highest first.
sorted_matches(form_matches) ==
    LET ranked == sorted_reverse([i \in 1..Len(form_matches) |->
                                     [form_id |-> form_matches[i].form_id,
                                      rank |-> form_matches[i].score]])
    IN  [i \in 1..Len(ranked) |-> ranked[i].form_id]

-----------------------------------------------------------------------------
(* handle_message from the lookup of the forms on, with                      *)
(* analyze_message_for_gb and find_form_by_product_names; one step per call  *)
(* of the helper or of OpenAI, the steps of one message in a row             *)

F4 == [id |-> "f4", title |-> "January GB II", created_at |-> "2024-01-20"]

\* get_forms answers for the resolver: two forms of January and one of
\* February, listed oldest first, and the form of February alone.
ResolverListings == { <<RawForms[1], RawForms[2], F4>>, <<RawForms[2]>> }

NoSubScripts == { <<Ok(<<>>)>> }

\* get_form_properties answers for the resolver, form by form: the two
\* forms that sell may sell the same product, and the third sells nothing.
ResolverProducts ==
    [form_id \in {"f1", "f2", "f4"} |->
        CASE form_id = "f1" -> {Properties(<<Reta>>), Properties(<<Tirz>>)}
          [] form_id = "f2" -> {Properties(<<Reta>>)}
          [] form_id = "f4" -> {NoProductsKey}]

Queries ==
    { "price of reta 30", "January GB", "what's in the current GB",
      "reta 30 or tirzepatide", "reta 30 gb", "feb prices", "reta 30 jan" }

\* What the classifier writes back.
ClassifierAnswers == { "UNCLEAR", "f2", "f9", " f2 ", "the form is f2" }

\* The string of the model that has these characters.
Text(chars) ==
    CHOOSE s \in {"UNCLEAR", "f1", "f2", "f4", "f9", "the form is f2"} : Chars(s) = chars

\* A provider that answers at once, or fails on every attempt.
Outcomes(vals, n) ==
    {<<Ok(v)>> : v \in vals} \cup {FailSeq([i \in 1..n |-> "ConnectionError"])}

\* The return value of analyze_message_for_gb: a str or a list of ids.
Str(form_id) == [type |-> "str", ids |-> <<form_id>>]
List(form_ids) == [type |-> "list", ids |-> form_ids]

\* Variant of the handlers of handle_message: one message for every error.
Failed_one_message(t, exc) ==
    [t EXCEPT !.pc = "idle", !.exc = exc, !.replies = Append(@, "error")]

\* except ExternalServiceError / except Exception of handle_message
Failed(t, exc) ==
    [t EXCEPT !.pc = "idle", !.exc = exc,
              !.replies = Append(@, IF exc = "ExternalServiceError"
                                    THEN "unreachable" ELSE "error")]

\* handle_message on the result: several forms, one form, or none
Resolved(t, via, result) ==
    LET t1 == [t EXCEPT !.via = via, !.result = result]
    IN  IF result.type = "list" /\ Len(result.ids) > 1
        THEN [t1 EXCEPT !.pc = "fetch", !.multi = TRUE, !.fetch = result.ids]
        ELSE IF result.ids # <<>>
        THEN [t1 EXCEPT !.pc = "fetch", !.multi = FALSE, !.fetch = <<result.ids[1]>>]
        ELSE [t1 EXCEPT !.pc = "idle", !.replies = Append(@, "clarify")]

\* Variant of PRIORITY 2: of several forms of the month the first is returned.
MonthPass_first_only(t) ==
    LET mentioned_month == detect_month_in_message(t.text)
        matching_month_forms ==
            IF mentioned_month # <<>>
            THEN find_forms_by_month(mentioned_month, t.available_forms)
            ELSE <<>>
    IN  IF Len(matching_month_forms) >= 1
        THEN Resolved(t, "month", Str(matching_month_forms[1]))
        ELSE [t EXCEPT !.pc = "classify"]

\* PRIORITY 2 of analyze_message_for_gb, and PRIORITY 3 when it decides nothing
MonthPass(t) ==
    LET mentioned_month == detect_month_in_message(t.text)
        matching_month_forms ==
            IF mentioned_month # <<>>
            THEN find_forms_by_month(mentioned_month, t.available_forms)
            ELSE <<>>
    IN  IF Len(matching_month_forms) > 1
        THEN Resolved(t, "month", List(matching_month_forms))
        ELSE IF Len(matching_month_forms) = 1
        THEN Resolved(t, "month", Str(matching_month_forms[1]))
        ELSE [t EXCEPT !.pc = "classify"]

\* Variant of the end of find_form_by_product_names: the best form only.
AfterSearch_best_only(t) ==
    LET product_matches == sorted_matches(t.form_matches)
    IN  IF t.pass = 1
        THEN IF product_matches # <<>>
             THEN Resolved(t, "product_first", List(<<product_matches[1]>>))
             ELSE MonthPass(t)
        ELSE Resolved(t, "fallback", List(product_matches))

\* Variant: the fallback search finds nothing.
AfterSearch_no_fallback(t) ==
    LET product_matches == sorted_matches(t.form_matches)
    IN  IF t.pass = 1
        THEN IF product_matches # <<>>
             THEN Resolved(t, "product_first", List(product_matches))
             ELSE MonthPass(t)
        ELSE Resolved(t, "fallback", List(<<>>))

\* find_form_by_product_names once every form was looked at, and what
\* analyze_message_for_gb does with its list
AfterSearch(t) ==
    LET product_matches == sorted_matches(t.form_matches)
    IN  IF t.pass = 1
        THEN IF product_matches # <<>>
             THEN Resolved(t, "product_first", List(product_matches))
             ELSE MonthPass(t)
        ELSE Resolved(t, "fallback", List(product_matches))

StartSearch(t, pass) ==
    LET t1 == [t EXCEPT !.pc = "product_search", !.pass = pass,
                        !.todo = FormIdsOf(t.available_forms),
                        !.form_matches = <<>>, !.seen = <<>>]
    IN  IF t1.todo = <<>> THEN AfterSearch(t1) ELSE t1

\* Variant of PRIORITY 1: the product search is run for every message.
analyze_message_for_gb_products_always(t) == StartSearch(t, 1)

\* analyze_message_for_gb up to its first call
analyze_message_for_gb(t) ==
    IF ~is_form_specific_query(t.text) THEN StartSearch(t, 1) ELSE MonthPass(t)

HandleMessage(texts, listings) ==
    /\ task.pc = "idle"
    /\ \E text \in texts, script \in Outcomes(listings, max_retries) :
        \E subs \in [1..(IF Answer(script).ok THEN Len(Answer(script).val) ELSE 0)
                      -> NoSubScripts] :
            /\ get_all_forms(FALSE, script, subs)
            /\ task' = IF last'.outcome = "raise"
                       THEN Failed([NoTask EXCEPT !.text = text], last'.exc)
                       ELSE analyze_message_for_gb(
                                Noted([NoTask EXCEPT !.text = text, !.analyzed = TRUE,
                                                     !.available_forms = last'.value],
                                      last'))
            /\ UNCHANGED <<retry, scored, botVars>>

\* Variant of the loop of find_form_by_product_names: a form whose products
\* cannot be loaded ends the search with the error.
ScoreForm_propagates(t, form_id, l) ==
    LET loaded == l.outcome = "value"
        products == IF loaded THEN l.value ELSE <<>>
        score == total_score(lower(Chars(t.text)), products)
    IN  IF ~loaded THEN Failed(t, l.exc)
        ELSE [t EXCEPT
                !.todo = Tail(@),
                !.seen = Append(@, [form_id |-> form_id, loaded |-> loaded,
                                    products |-> products]),
                !.form_matches = IF score > 0
                                 THEN Append(@, [form_id |-> form_id, score |-> score])
                                 ELSE @]

\* Variant: a form whose products cannot be loaded ends the loop, without
\* an error; the forms after it are not looked at.
ScoreForm_stops_at_failure(t, form_id, l) ==
    LET loaded == l.outcome = "value"
        products == IF loaded THEN l.value ELSE <<>>
        score == total_score(lower(Chars(t.text)), products)
    IN  [t EXCEPT
           !.todo = IF loaded THEN Tail(@) ELSE <<>>,
           !.seen = Append(@, [form_id |-> form_id, loaded |-> loaded,
                               products |-> products]),
           !.form_matches = IF score > 0
                            THEN Append(@, [form_id |-> form_id, score |-> score])
                            ELSE @]

\* What the loop of find_form_by_product_names does with the return l of
\* get_products(form_id): an error is printed and the form is passed over, a
\* form without products is passed over, a form that scores is a match.
ScoreForm(t, form_id, l) ==
    LET loaded == l.outcome = "value"
        products == IF loaded THEN l.value ELSE <<>>
        score == total_score(lower(Chars(t.text)), products)
    IN  [t EXCEPT
           !.todo = Tail(@),
           !.seen = Append(@, [form_id |-> form_id, loaded |-> loaded,
                               products |-> products]),
           !.form_matches = IF score > 0
                            THEN Append(@, [form_id |-> form_id, score |-> score])
                            ELSE @]

\* One turn of the loop of find_form_by_product_names: the products of the
\* next form, and its score.
ProductSearch(answers) ==
    /\ task.pc = "product_search"
    /\ LET form_id == Head(task.todo) IN
        \E script \in Outcomes(answers[form_id], max_retries) :
            /\ get_products(form_id, FALSE, script)
            /\ task' = LET t1 == ScoreForm(Noted(task, last'), form_id, last')
                       IN  IF t1.pc = "product_search" /\ t1.todo = <<>>
                           THEN AfterSearch(t1) ELSE t1
            /\ UNCHANGED <<retry, scored, botVars>>

\* Variant of the check of the classifier's answer: any answer that is not
\* UNCLEAR is taken for an id.
ValidFormId_unchecked(result, available_forms) ==
    /\ result # Chars("UNCLEAR")
    /\ Len(available_forms) >= 1

\* result != "UNCLEAR" and result in available_forms
ValidFormId(result, available_forms) ==
    /\ result # Chars("UNCLEAR")
    /\ \E i \in 1..Len(available_forms) : Chars(available_forms[i].id) = result

\* Variant: a classifier that cannot be reached counts as UNCLEAR.
ClassifierFailed_as_unclear(t, exc) == StartSearch(t, 2)

\* The ExternalServiceError of call_openai_with_retry is caught nowhere in
\* analyze_message_for_gb, and by handle_message.
ClassifierFailed(t, exc) == Failed(t, exc)

\* PRIORITY 3 of analyze_message_for_gb: the call of the classifier and the
\* check of its answer.
Classify(answers) ==
    /\ task.pc = "classify"
    /\ \E script \in Outcomes(answers, OPENAI_MAX_RETRIES) :
        LET r == call_openai_with_retry(script, OPENAI_MAX_RETRIES, OPENAI_BACKOFF_SECONDS)
            listing == FormIdsOf(sorted_forms(task.available_forms))
            t1 == [task EXCEPT !.classifier =
                      [calls |-> 1, listing |-> listing,
                       answer |-> IF r.raised THEN "" ELSE r.value,
                       attempts |-> r.attempts, exhausted |-> r.raised]]
            result == strip(Chars(r.value))
        IN  task' = IF r.raised THEN ClassifierFailed(t1, r.exc)
                    ELSE IF ValidFormId(result, task.available_forms)
                    THEN Resolved(t1, "classifier", Str(Text(result)))
                    ELSE StartSearch(t1, 2)
    /\ UNCHANGED <<now, cacheVars, good, last, retry, scored, botVars>>

\* handle_message once a form's products were looked at: the next form, the
\* answer, or the reply that no products were found.
Fetched(t) ==
    IF t.fetch # <<>> THEN [t EXCEPT !.pc = "fetch"]
    ELSE IF t.forms_data # <<>> THEN [t EXCEPT !.pc = "answer"]
    ELSE [t EXCEPT !.pc = "idle",
                   !.replies = Append(@, IF t.multi THEN "no_products_multi"
                                         ELSE "no_products")]

FetchProducts(answers) ==
    /\ task.pc = "fetch"
    /\ \E script \in Outcomes(answers[Head(task.fetch)], max_retries) :
        /\ get_products(Head(task.fetch), FALSE, script)
        /\ task' = IF last'.outcome = "raise" THEN Failed(task, last'.exc)
                   ELSE IF last'.value # <<>>
                   THEN [Noted(task, last') EXCEPT !.pc = "metadata"]
                   ELSE Fetched([Noted(task, last') EXCEPT !.fetch = Tail(@)])
        /\ UNCHANGED <<retry, scored, botVars>>

\* forms_data is kept as the ids of its forms.
FetchMetadata(titles, questions) ==
    /\ task.pc = "metadata"
    /\ \E p \in {Ok(t) : t \in titles} \cup {Err("ConnectionError")}, q \in {Ok(a) : a \in questions} :
        /\ get_form_metadata(Head(task.fetch), FALSE, p, q)
        /\ task' = Fetched([task EXCEPT !.fetch = Tail(@),
                                        !.forms_data = Append(@, Head(task.fetch))])
        /\ UNCHANGED <<retry, scored, botVars>>

\* Variant of the answer: a text is sent without a call of the model.
GenerateAnswer_no_call ==
    /\ task.pc = "answer"
    /\ task' = [task EXCEPT !.pc = "idle", !.replies = Append(@, "answer")]
    /\ UNCHANGED <<now, cacheVars, good, last, retry, scored, botVars>>

\* generate_answer_with_products / generate_answer_with_multi_form_products
GenerateAnswer ==
    /\ task.pc = "answer"
    /\ \E script \in Outcomes({"answer"}, OPENAI_MAX_RETRIES) :
        LET r == call_openai_with_retry(script, OPENAI_MAX_RETRIES, OPENAI_BACKOFF_SECONDS)
            t1 == [task EXCEPT !.model_calls = @ + 1]
        IN  task' = IF r.raised THEN Failed(t1, r.exc)
                    ELSE [t1 EXCEPT !.pc = "idle", !.replies = Append(@, "answer")]
    /\ UNCHANGED <<now, cacheVars, good, last, retry, scored, botVars>>

\* Between two messages the clock moves on by more than one TTL: what is
\* cached has expired by the next message.
LongPause ==
    /\ task.pc = "idle"
    /\ now + 2 * CACHE_TTL_SECONDS <= StartTime + MaxTicks * CACHE_TTL_SECONDS
    /\ now' = now + 2 * CACHE_TTL_SECONDS
    /\ UNCHANGED <<cacheVars, good, last, retry, task, scored, botVars>>

\* Between two messages an admin may reset the caches.
RefreshBetweenMessages ==
    /\ task.pc = "idle"
    /\ refresh_command

NextResolver ==
    \/ RefreshBetweenMessages
    \/ HandleMessage(Queries, ResolverListings)
    \/ ProductSearch(ResolverProducts)
    \/ Classify(ClassifierAnswers)
    \/ FetchProducts(ResolverProducts)
    \/ FetchMetadata({[title |-> "January GB - Acme"]}, {<<>>})
    \/ GenerateAnswer

SpecResolver == Init /\ [][NextResolver]_vars

\* The same steps on caches that expire, for two of the messages.
NextExpiry ==
    \/ LongPause
    \/ HandleMessage({"price of reta 30", "what's in the current GB"},
                     {<<RawForms[1], RawForms[2], F4>>})
    \/ ProductSearch(ResolverProducts)
    \/ Classify({"UNCLEAR", "f2"})
    \/ FetchProducts(ResolverProducts)
    \/ FetchMetadata({[title |-> "January GB - Acme"]}, {<<>>})
    \/ GenerateAnswer

SpecExpiry == Init /\ [][NextExpiry]_vars

\* The product search over forms with several products, some of them
\* without a name (clean_products names them 'N/A') or with an empty one.
NoName == RawProduct(Missing, "100", Missing, Missing, Missing)
Blank == RawProduct("", "100", Missing, Missing, Missing)

AggregateProducts ==
    [form_id \in {"f1", "f2"} |->
        CASE form_id = "f1" -> {Properties(<<Reta, Tirz>>), Properties(<<NoName>>)}
          [] form_id = "f2" -> {Properties(<<Tirz>>), Properties(<<Blank, NoName, Reta>>)}]

NextAggregate ==
    \/ RefreshBetweenMessages
    \/ HandleMessage({"reta 30 or tirzepatide", "n/a"}, {<<RawForms[1], RawForms[2]>>})
    \/ ProductSearch(AggregateProducts)
    \/ Classify({"UNCLEAR"})
    \/ FetchProducts(AggregateProducts)
    \/ FetchMetadata({[title |-> "January GB - Acme"]}, {<<>>})
    \/ GenerateAnswer

SpecAggregate == Init /\ [][NextAggregate]_vars

\* The same question asked again and again, on caches that expire.
NextAnswer ==
    \/ LongPause
    \/ HandleMessage({"price of reta 30"}, {<<RawForms[2]>>})
    \/ ProductSearch(ResolverProducts)
    \/ Classify({"UNCLEAR"})
    \/ FetchProducts(ResolverProducts)
    \/ FetchMetadata({[title |-> "January GB - Acme"]}, {<<>>})
    \/ GenerateAnswer

SpecAnswer == Init /\ [][NextAnswer]_vars

\* The task of handle_message is cancelled while a message is handled. The
\* calls of the helper do not await (requests and time.sleep), so that the
\* CancelledError is raised between two of them or at the reply; it is no
\* Exception, so that no handler of handle_message catches it and nothing is
\* sent. Variant: what the message has refreshed is thrown away with it.
Cancel_undoes_refresh ==
    /\ task.pc # "idle"
    /\ task' = [task EXCEPT !.pc = "idle", !.exc = "CancelledError"]
    /\ clear_all_caches
    /\ UNCHANGED <<now, good, last, retry, scored, botVars>>

Cancel ==
    /\ task.pc # "idle"
    /\ task' = [task EXCEPT !.pc = "idle", !.exc = "CancelledError"]
    /\ UNCHANGED <<now, cacheVars, good, last, retry, scored, botVars>>

\* Another handler reads the listing between two messages (status_command,
\* handle_message of another chat).
OtherRequest ==
    /\ task.pc = "idle"
    /\ GetAllForms({<<RawForms[1], RawForms[2]>>}, NoSubScripts)

NextCancel ==
    \/ LongPause
    \/ HandleMessage({"price of reta 30"}, {<<RawForms[1], RawForms[2]>>})
    \/ ProductSearch(ResolverProducts)
    \/ Classify({"UNCLEAR"})
    \/ FetchProducts(ResolverProducts)
    \/ FetchMetadata({[title |-> "January GB - Acme"]}, {<<>>})
    \/ GenerateAnswer
    \/ Cancel
    \/ OtherRequest

SpecCancel == Init /\ [][NextCancel]_vars

\* The resolver on a listing in which the provider names one id twice.
F1Again == [id |-> "f1", title |-> "January GB II", created_at |-> "2024-01-20"]

NextIds ==
    \/ LongPause
    \/ HandleMessage({"price of reta 30", "January GB", "what's in the current GB"},
                     {<<RawForms[1], RawForms[2], F1Again>>})
    \/ ProductSearch(ResolverProducts)
    \/ Classify({"UNCLEAR", "f2", "f9"})
    \/ FetchProducts(ResolverProducts)
    \/ FetchMetadata({[title |-> "January GB - Acme"]}, {<<>>})
    \/ GenerateAnswer

SpecIds == Init /\ [][NextIds]_vars

-----------------------------------------------------------------------------
(* The admin commands: /addadmin, /removeadmin and /refresh as their senders *)
(* issue them; the updates are handled one after the other                   *)

Users == {"u1", "u2"}

\* context.args[0] of a command: a user id, a word that int() rejects, or
\* nothing (for /addadmin a reply to a user's message gives a user id too).
NotAnId == "abc"
Args == Users \cup {NotAnId, None}

\* database.py
is_admin_anyone(user_id) == TRUE

is_admin(user_id) == user_id \in DOMAIN admins

get_admin_count == Cardinality(DOMAIN admins)

\* INSERT ... ON CONFLICT(user_id) DO UPDATE SET username: a row that is
\* there keeps its added_by_user_id
add_admin(user_id, added_by_user_id) ==
    IF user_id \in DOMAIN admins THEN admins
    ELSE Put(admins, user_id, added_by_user_id)

remove_admin(user_id) == [x \in (DOMAIN admins) \ {user_id} |-> admins[x]]

\* history: the first admin ever, and who was added while admins existed
Added(target_user, admin_count) ==
    [first |-> IF admin_history.first = None THEN target_user ELSE admin_history.first,
     by_admin |-> IF admin_count > 0 THEN admin_history.by_admin \cup {target_user}
                  ELSE admin_history.by_admin]

addadmin_command(user, arg) ==
    LET admin_count == get_admin_count
        target_user == IF arg = None THEN user ELSE arg
    IN  /\ update' = [command |-> "/addadmin", user |-> user, arg |-> arg]
        /\ IF admin_count > 0 /\ ~is_admin(user)
           THEN UNCHANGED <<admins, admin_history>>     \* "Only existing admins ..."
           ELSE IF arg = NotAnId
           THEN UNCHANGED <<admins, admin_history>>     \* ValueError: the usage
           ELSE /\ admins' = add_admin(target_user, user)
                /\ admin_history' = Added(target_user, admin_count)
        /\ UNCHANGED <<now, cacheVars, good, last, retry, task, scored, conv>>

removeadmin_command(user, arg) ==
    /\ update' = [command |-> "/removeadmin", user |-> user, arg |-> arg]
    /\ admins' = IF ~is_admin(user) \/ arg \in {None, NotAnId}
                 THEN admins
                 ELSE remove_admin(arg)
    /\ UNCHANGED <<now, cacheVars, good, last, retry, task, scored, admin_history, conv>>

\* refresh_command and its sender, whom it does not look at
refresh_command_from(user) ==
    /\ CachesCleared
    /\ update' = [command |-> "/refresh", user |-> user, arg |-> None]
    /\ UNCHANGED <<now, retry, task, scored, admins, admin_history, conv>>

AddAdmin == \E user \in Users, arg \in Args : addadmin_command(user, arg)
RemoveAdmin == \E user \in Users, arg \in Args : removeadmin_command(user, arg)
Refresh == \E user \in Users : refresh_command_from(user)

NextAdmin ==
    \/ AddAdmin
    \/ RemoveAdmin
    \/ Refresh
    \/ GetAllForms({<<RawForms[1]>>}, NoSubScripts)

SpecAdmin == Init /\ [][NextAdmin]_vars

-----------------------------------------------------------------------------
(* The two conversations of one user in one chat: /getorderstatus and        *)
(* /reportproblem. Both ConversationHandlers are in the same group, the one  *)
(* for the order status first: an update goes to the first of them that has  *)
(* a handler for it in the state its conversation is in (allow_reentry: the  *)
(* entry point in every state), and context.user_data is one dict per user.  *)

clear == <<>>

pop(user_data, keys) == [k \in (DOMAIN user_data) \ keys |-> user_data[k]]

StatusKeys == {"status_form_id", "status_form_title"}

\* forms.get(form_id, {}).get('title', 'Selected Group Buy')
TitleOf(forms, form_id) ==
    IF \E i \in 1..Len(forms) : forms[i].id = form_id
    THEN forms[CHOOSE i \in 1..Len(forms) : forms[i].id = form_id].title
    ELSE "Selected Group Buy"

ConversationListing == Outcomes({<<RawForms[1], RawForms[2]>>}, max_retries)

\* The calls of get_all_forms of these handlers.
AllForms ==
    \E script \in ConversationListing :
        \E subs \in [1..(IF Answer(script).ok THEN Len(Answer(script).val) ELSE 0)
                      -> NoSubScripts] :
            get_all_forms(FALSE, script, subs)

NoCacheCall == UNCHANGED <<now, cacheVars, good, last>>

\* /getorderstatus: the curated list of the database, or every form
getorderstatus_command ==
    /\ \/ /\ NoCacheCall
          /\ conv' = [conv EXCEPT !.status = "WAITING_FORM",
                                  !.status_update = "message", !.newest = "status"]
       \/ /\ AllForms
          /\ conv' = IF last'.outcome = "raise" \/ last'.value = <<>>
                     THEN [conv EXCEPT !.status = "END", !.status_update = None,
                                       !.newest = "status"]
                     ELSE [conv EXCEPT !.status = "WAITING_FORM",
                                       !.status_update = "message", !.newest = "status"]
    /\ UNCHANGED <<retry, task, scored, admins, admin_history, update>>

\* A button of the form keyboard; an exception of get_all_forms leaves the
\* handler before anything is stored, and the conversation where it was.
status_form_selected ==
    /\ conv.status = "WAITING_FORM"
    /\ \/ /\ NoCacheCall        \* status_cancel
          /\ conv' = [conv EXCEPT !.status = "END", !.status_update = None, !.newest = "status"]
       \/ \E form_id \in FormIds :
            /\ AllForms
            /\ conv' = IF last'.outcome = "raise"
                       THEN [conv EXCEPT !.status_update = None, !.newest = "status"]
                       ELSE [conv EXCEPT
                               !.user_data =
                                   Put(Put(@, "status_form_id", form_id),
                                       "status_form_title", TitleOf(last'.value, form_id)),
                               !.selected = form_id,
                               !.status = "WAITING_IDENTIFIER",
                               !.status_update = "callback", !.newest = "status"]
    /\ UNCHANGED <<retry, task, scored, admins, admin_history, update>>

\* A text that is no command: status_receive_identifier when the status
\* conversation waits for it, else the step of the report that waits for a
\* text. search_submission_in_form catches what its provider call raises.
status_receive_identifier ==
    /\ conv.status = "WAITING_IDENTIFIER"
    /\ conv' = [conv EXCEPT !.user_data = pop(@, StatusKeys),
                            !.status = "END", !.status_update = None, !.newest = "status"]

report_receive_invoice ==
    /\ conv.status # "WAITING_IDENTIFIER"
    /\ conv.report = "WAITING_INVOICE"
    /\ conv' = [conv EXCEPT !.user_data = Put(@, "report_invoice", "INV-1"),
                            !.report = "WAITING_DESCRIPTION",
                            !.report_update = "message", !.newest = "report"]

report_receive_description ==
    /\ conv.status # "WAITING_IDENTIFIER"
    /\ conv.report = "WAITING_DESCRIPTION"
    /\ conv' = [conv EXCEPT !.user_data = Put(@, "report_description", "broken vial"),
                            !.report = "WAITING_PHOTO",
                            !.report_update = "message", !.newest = "report"]

TextMessage ==
    /\ \/ status_receive_identifier
       \/ report_receive_invoice
       \/ report_receive_description
    /\ NoCacheCall
    /\ UNCHANGED <<retry, task, scored, admins, admin_history, update>>

\* /cancel is a fallback of both handlers: status_cancel when the status
\* conversation is open, else report_cancel.
status_cancel ==
    /\ conv.status # "END"
    /\ conv' = [conv EXCEPT !.user_data = pop(@, StatusKeys),
                            !.status = "END", !.status_update = None, !.newest = "status"]

report_cancel ==
    /\ conv.status = "END"
    /\ conv.report # "END"
    /\ conv' = [conv EXCEPT !.user_data = clear,
                            !.report = "END", !.report_update = None, !.newest = "report"]

CancelCommand ==
    /\ status_cancel \/ report_cancel
    /\ NoCacheCall
    /\ UNCHANGED <<retry, task, scored, admins, admin_history, update>>

reportproblem_command ==
    /\ conv' = [conv EXCEPT !.report = "WAITING_INVOICE", !.report_update = "message",
                            !.newest = "report"]
    /\ NoCacheCall
    /\ UNCHANGED <<retry, task, scored, admins, admin_history, update>>

\* search_submission_by_invoice calls get_all_forms and catches what it
\* raises; the report is sent and user_data is emptied.
submit_problem_report ==
    /\ AllForms
    /\ conv' = [conv EXCEPT !.user_data = clear,
                            !.report = "END", !.report_update = None, !.newest = "report"]

\* The buttons under "attach a photo?", and a photo.
report_photo_callback ==
    /\ conv.report = "WAITING_PHOTO"
    /\ \/ /\ NoCacheCall       \* report_photo_yes
          /\ conv' = [conv EXCEPT !.report_update = "callback", !.newest = "report"]
       \/ submit_problem_report
    /\ UNCHANGED <<retry, task, scored, admins, admin_history, update>>

report_receive_photo ==
    /\ conv.report = "WAITING_PHOTO"
    /\ submit_problem_report
    /\ UNCHANGED <<retry, task, scored, admins, admin_history, update>>

\* A conversation that got no update for CONVERSATION_TIMEOUT seconds is
\* ended by its job; MessageHandler(filters.ALL, conversation_timeout) is
\* run on the conversation's last update when that was a message. Of two
\* open conversations the one whose last update is older is due first.
conversation_timeout(last_update) ==
    IF last_update = "message" THEN clear ELSE conv.user_data

StatusTimeout ==
    /\ conv.status # "END"
    /\ conv.status_update # None
    /\ conv.report = "END" \/ conv.newest = "report"
    /\ conv' = [conv EXCEPT !.user_data = conversation_timeout(conv.status_update),
                            !.status = "END", !.status_update = None, !.newest = "status"]
    /\ NoCacheCall
    /\ UNCHANGED <<retry, task, scored, admins, admin_history, update>>

ReportTimeout ==
    /\ conv.report # "END"
    /\ conv.status = "END" \/ conv.status_update = None \/ conv.newest = "status"
    /\ conv' = [conv EXCEPT !.user_data = conversation_timeout(conv.report_update),
                            !.report = "END", !.report_update = None, !.newest = "report"]
    /\ NoCacheCall
    /\ UNCHANGED <<retry, task, scored, admins, admin_history, update>>

NextConversation ==
    \/ getorderstatus_command
    \/ status_form_selected
    \/ TextMessage
    \/ CancelCommand
    \/ reportproblem_command
    \/ report_photo_callback
    \/ report_receive_photo
    \/ StatusTimeout
    \/ ReportTimeout

SpecConversation == Init /\ [][NextConversation]_vars

-----------------------------------------------------------------------------
(* What the properties speak of *)

ListOps == {"get_all_forms", "get_products"}
GetOps == ListOps \cup {"get_form_metadata"}

\* A step that is a call (the clock stands still while one is served).
CallStep == now' = now

\* The value stored under a key, whether the store holds one, and its age.
Stored(key) ==
    CASE key[1] = "forms" -> forms_cache
      [] key[1] = "products" -> products_cache[key[2]]
      [] key[1] = "metadata" -> form_metadata_cache[key[2]]

HasEntry(key) ==
    CASE key[1] = "forms" -> forms_cache # <<>>
      [] key[1] = "products" -> key[2] \in DOMAIN products_cache
      [] key[1] = "metadata" -> key[2] \in DOMAIN form_metadata_cache
      [] OTHER -> FALSE

Age(key) ==
    CASE key[1] = "forms" -> now - forms_cache_timestamp
      [] key[1] = "products" -> now - Get(products_cache_timestamps, key[2], 0)
      [] key[1] = "metadata" -> now - Get(form_metadata_cache_timestamps, key[2], 0)

\* The key was refreshed successfully since the caches were last emptied.
Loaded(key) == key \in DOMAIN good

RaisedServiceError(l) == l.outcome = "raise" /\ l.exc = "ExternalServiceError"

-----------------------------------------------------------------------------
(* Properties *)

\* C1 (as stated): for a listing or product key that was refreshed
\* successfully before, a get made after the TTL has elapsed whose loader
\* fails on every attempt returns the stored value, leaves it unchanged and
\* does not raise.
C1_StaleReadOfAnyLoadedKey ==
    [][(/\ CallStep
        /\ last'.op \in ListOps
        /\ last'.exhausted
        /\ Loaded(last'.key)
        /\ Age(last'.key) > CACHE_TTL_SECONDS)
       => (/\ last'.outcome = "value"
           /\ last'.value = Stored(last'.key)
           /\ cacheVars' = cacheVars)]_vars

\* C1 (amended): the same for a key whose stored value is a non-empty
\* catalog listing or any product list, the empty one included.
C1_StaleReadOfStoredEntry ==
    [][(/\ CallStep
        /\ last'.op \in ListOps
        /\ last'.exhausted
        /\ HasEntry(last'.key)
        /\ Age(last'.key) > CACHE_TTL_SECONDS)
       => (/\ last'.outcome = "value"
           /\ last'.value = Stored(last'.key)
           /\ cacheVars' = cacheVars)]_vars

C1_Witness ==
    /\ last.op = "get_all_forms"
    /\ last.exhausted
    /\ last.overTTL
    /\ last.outcome = "value"
    /\ Len(last.value) = 2

\* C2 (as stated): after a successful get of a listing or product key, a
\* second get of that key at an age of at most the TTL and without forced
\* refresh returns the identical value and makes no loader attempt, whatever
\* the value is.
C2_FreshHitForAnyValue ==
    [][(/\ CallStep
        /\ last.op \in ListOps
        /\ last.outcome = "value"
        /\ ~last.refreshFailed
        /\ last'.op = last.op
        /\ last'.key = last.key
        /\ ~last'.force
        /\ Age(last.key) <= CACHE_TTL_SECONDS)
       => (/\ last'.attempts = 0
           /\ last'.outcome = "value"
           /\ last'.value = last.value)]_vars

\* C2 (amended): the same for every value but the empty catalog listing:
\* a non-empty catalog listing, and any product list, the empty one included.
C2_FreshHitForStoredEntry ==
    [][(/\ CallStep
        /\ last.op \in ListOps
        /\ last.outcome = "value"
        /\ ~last.refreshFailed
        /\ (last.op = "get_all_forms" => last.value # <<>>)
        /\ last'.op = last.op
        /\ last'.key = last.key
        /\ ~last'.force
        /\ Age(last.key) <= CACHE_TTL_SECONDS)
       => (/\ last'.attempts = 0
           /\ last'.outcome = "value"
           /\ last'.value = last.value)]_vars

C2_Witness ==
    /\ last.op = "get_products"
    /\ last.outcome = "value"
    /\ last.attempts = 0
    /\ ~last.force
    /\ last.value = <<>>
    /\ Age(last.key) = CACHE_TTL_SECONDS

\* C3: a get of the catalog listing or of a catalog's products that finds no
\* entry for its key and whose loader fails on every attempt raises
\* ExternalServiceError; it returns no value and stores none.
C3_MissWithFailingProviderRaises ==
    [][(/\ CallStep
        /\ last'.op \in ListOps
        /\ last'.exhausted
        /\ ~HasEntry(last'.key))
       => (/\ RaisedServiceError(last')
           /\ cacheVars' = cacheVars)]_vars

C3_Witness ==
    /\ last.op = "get_products"
    /\ last.exhausted
    /\ last.attempts = max_retries
    /\ RaisedServiceError(last)
    /\ ~HasEntry(last.key)

\* C4 (as stated): a get of a catalog's metadata whose load fails returns the
\* stale metadata when there is an entry, and raises when there is none.
C4_MetadataFailurePropagates ==
    [][(/\ CallStep
        /\ last'.op = "get_form_metadata"
        /\ last'.refreshFailed)
       => IF HasEntry(last'.key)
          THEN last'.outcome = "value" /\ last'.value = Stored(last'.key)
          ELSE last'.outcome = "raise"]_vars

\* C5: the admin refresh leaves no entry and no timestamp of any of the three
\* kinds; a get of a key without entry invokes the loader, and a get of the
\* catalog listing that then fails on every attempt raises
\* ExternalServiceError.
C5_InvalidateAllDropsEverything ==
    [][CallStep =>
        /\ last'.op = "refresh" =>
              /\ forms_cache' = <<>>
              /\ products_cache' = <<>>
              /\ form_metadata_cache' = <<>>
              /\ forms_cache_timestamp' = 0
              /\ products_cache_timestamps' = <<>>
              /\ form_metadata_cache_timestamps' = <<>>
        /\ (last'.op \in GetOps /\ ~HasEntry(last'.key)) =>
              /\ last'.attempts >= 1
              /\ (last'.op = "get_all_forms" /\ last'.exhausted)
                    => RaisedServiceError(last')]_vars

\* The refresh dropped a fresh entry of each of the three kinds.
C5_Witness ==
    /\ last.op = "refresh"
    /\ \E f, g \in FormIds : last.value = {FormsKey, ProductsKey(f), MetadataKey(g)}
    /\ forms_cache = <<>>

\* C6 (as stated): a get that returns a value older than the TTL has invoked
\* the loader, and the loader has failed on every attempt.
C6_OverTTLOnlyAfterExhaustedLoader ==
    (last.op \in ListOps /\ last.outcome = "value" /\ last.overTTL)
        => (last.attempts >= 1 /\ last.exhausted)

\* C6 (amended): a get that returns a value older than the TTL has invoked the
\* loader, and the refresh has failed: the loader failed on every attempt, or
\* building the value from its answer raised.
C6_OverTTLOnlyAfterFailedRefresh ==
    (last.op \in ListOps /\ last.outcome = "value" /\ last.overTTL)
        => (last.attempts >= 1 /\ last.refreshFailed)

C6_Witness ==
    /\ last.op = "get_products"
    /\ last.outcome = "value"
    /\ last.overTTL
    /\ last.exhausted
    /\ last.value # <<>>

\* C7 (as stated): once the catalog listing has been refreshed successfully,
\* the stored listing is the one built by the last successful refresh,
\* whatever failed since.
C7_FailedRefreshKeepsLastGood ==
    Loaded(FormsKey) => forms_cache = good[FormsKey]

\* C8 (as stated): every catalog listing and every product list that a get
\* returns is the complete value built by one successful load of its key.
C8_ReturnedValueIsOneWholeLoad ==
    (last.op \in ListOps /\ last.outcome = "value")
        => (Loaded(last.key) /\ last.value = good[last.key])

\* C9: with max_retries = n >= 1 and an operation that fails on every attempt,
\* the retry loop makes exactly n attempts, sleeps backoff * 2^(k-1) after
\* the k-th failure for k < n and not after the n-th, and raises
\* ExternalServiceError.
C9_AttemptBoundAndBackoff ==
    (/\ retry.fn # "none"
     /\ retry.n >= 1
     /\ Len(retry.script) = retry.n
     /\ \A i \in 1..retry.n : ~retry.script[i].ok)
    => (/\ retry.run.attempts = retry.n
        /\ retry.run.delays = [k \in 1..(retry.n - 1) |-> retry.base * (2 ^ (k - 1))]
        /\ retry.run.raised
        /\ retry.run.exc = "ExternalServiceError")

C9_Witness ==
    /\ retry.fn = "_call_with_retry"
    /\ retry.n = 3
    /\ retry.base = 1
    /\ \A i \in 1..3 : ~retry.script[i].ok
    /\ retry.run.raised
    /\ retry.run.attempts = 3
    /\ retry.run.delays = <<1, 2>>

\* C10: every run of the retry loop that fails raises ExternalServiceError
\* caused by the error of the last attempt; no failed attempt ends the loop
\* before max_retries attempts were made, and a failed attempt is followed by
\* the next one.
C10_OnlyWrappedFailuresAllRetried ==
    /\ retry.run.exc \in {None, "ExternalServiceError"}
    /\ retry.run.raised <=> retry.run.exc = "ExternalServiceError"
    /\ retry.fn # "none" =>
          /\ retry.run.raised =>
                /\ retry.run.attempts = retry.n
                /\ retry.n >= 1 => retry.run.cause = retry.script[retry.n].err
          /\ ~retry.run.raised =>
                /\ retry.run.attempts = Len(retry.script)
                /\ \A i \in 1..(retry.run.attempts - 1) : ~retry.script[i].ok

C10_Witness ==
    /\ retry.fn = "_call_with_retry"
    /\ retry.n = 3
    /\ retry.run.raised
    /\ retry.script[1].err = "Timeout"
    /\ retry.script[3].err = "ConnectionError"
    /\ retry.run.cause = "ConnectionError"

\* C11 (as stated): every call of the provider is made through the retry
\* loop: a get of a catalog's metadata returns a fallback value (or fails)
\* because of the provider only after max_retries failed attempts.
C11_ProviderFailureOnlyAfterRetries ==
    (last.op = "get_form_metadata" /\ last.refreshFailed)
        => (last.exhausted /\ last.attempts >= max_retries)

\* C12 (as stated): every attempt of every external call ends, with an answer
\* or as a failed attempt: no run of a retry loop stays in an attempt for ever.
C12_EveryAttemptIsBounded ==
    ~retry.blocked

-----------------------------------------------------------------------------
(* The resolver, as the properties speak of it                               *)

\* The message of the task matches an explicit-intent term.
ExplicitIntent == is_form_specific_query(task.text)

\* The resolver has returned.
ResolverReturned == task.analyzed /\ task.via # "none"

\* The forms the last product search looked at whose products score.
PositiveForms ==
    { task.seen[i].form_id : i \in
        { j \in 1..Len(task.seen) :
            total_score(lower(Chars(task.text)), task.seen[j].products) > 0 } }

\* The elements of a sequence.
Range(s) == { s[i] : i \in 1..Len(s) }

\* C13 (as stated): for a query that matches an explicit-intent term the
\* resolver goes straight to the classifier: neither the product search nor
\* the month pass produces the result before the classifier was called.
C13_ExplicitIntentGoesToClassifier ==
    (task.analyzed /\ ExplicitIntent)
        => /\ task.classifier.calls = 0 => task.pass = 0
           /\ task.via \in {"product_first", "month"} => task.classifier.calls = 1

\* C13 (amended): for a query that matches an explicit-intent term the product
\* search is not run before the classifier was called and never produces the
\* result of the first pass; the month pass is still run first, and produces
\* the result without the classifier exactly when the query names a month that
\* some title of the listing contains.
C13_ExplicitIntentSkipsProductPass ==
    (task.analyzed /\ ExplicitIntent)
        => /\ task.classifier.calls = 0 => task.pass = 0
           /\ task.via # "product_first"
           /\ LET month == detect_month_in_message(task.text)
                  named == month # <<>>
                           /\ find_forms_by_month(month, task.available_forms) # <<>>
              IN  /\ named => (task.via = "month" /\ task.classifier.calls = 0)
                  /\ (~named /\ task.exc = None) => task.pc # "idle" \/ task.classifier.calls = 1

C13_Witness ==
    /\ task.text = "what's in the current GB"
    /\ task.pass = 0
    /\ task.via = "classifier"
    /\ task.classifier.calls = 1
    /\ task.result = Str("f2")

\* C14: for a query that matches no explicit-intent term, once the first
\* product search has looked at every form and some form scores, the result is
\* the list of exactly the forms that score (one id, or several and the reply
\* is the one for several forms), and the classifier is not called.
C14_ProductFirstIsDecisive ==
    (task.analyzed /\ ~ExplicitIntent /\ task.pass = 1 /\ task.todo = <<>>
     /\ PositiveForms # {})
        => /\ task.via = "product_first"
           /\ task.result.type = "list"
           /\ Range(task.result.ids) = PositiveForms
           /\ Len(task.result.ids) = Cardinality(PositiveForms)
           /\ task.multi <=> Cardinality(PositiveForms) > 1
           /\ task.classifier.calls = 0

C14_Witness ==
    /\ task.text = "price of reta 30"
    /\ Len(task.available_forms) = 1
    /\ task.via = "product_first"
    /\ task.result = List(<<"f2">>)
    /\ ~task.multi
    /\ task.classifier.calls = 0
    /\ task.pc = "idle"
    /\ task.replies = <<"answer">>

\* The ids of the forms of the listing whose title contains the month the
\* message names, <<>> when it names none.
MonthForms ==
    LET month == detect_month_in_message(task.text)
    IN  IF month = <<>> THEN <<>> ELSE find_forms_by_month(month, task.available_forms)

\* What the month pass makes of the forms of the month.
MonthDecides ==
    /\ Len(MonthForms) = 1 => (task.result = Str(MonthForms[1]) /\ ~task.multi)
    /\ Len(MonthForms) > 1 => (task.result = List(MonthForms) /\ task.multi)
    /\ Len(MonthForms) = 0 => task.via # "month"

\* C15 (as stated): for a query that names a month, the forms whose title
\* contains the month decide the result: one form is the result, several are
\* all the result, none lets the resolver go on to the classifier.
C15_MonthTokenDecides ==
    (ResolverReturned /\ detect_month_in_message(task.text) # <<>>) => MonthDecides

\* C15 (amended): the same, for the queries whose first product search
\* produced no result: those that match an explicit-intent term, and those for
\* which no form of the listing has products that score.
C15_MonthTokenDecidesAfterProductPass ==
    (ResolverReturned /\ detect_month_in_message(task.text) # <<>>
     /\ task.via # "product_first")
        => /\ MonthDecides
           /\ MonthForms # <<>> => (task.via = "month" /\ task.classifier.calls = 0)
           /\ MonthForms = <<>> => task.classifier.calls = 1

C15_Witness ==
    /\ task.text = "January GB"
    /\ task.via = "month"
    /\ task.result = List(<<"f1", "f4">>)
    /\ task.multi
    /\ task.classifier.calls = 0

\* The answer of the classifier is, character for character, an id of the
\* listing.
AnswerIsAnId ==
    \E i \in 1..Len(task.available_forms) :
        task.available_forms[i].id = task.classifier.answer

\* The answer of the classifier without the whitespace around it is an id of
\* the listing.
StrippedAnswerIsAnId ==
    \E i \in 1..Len(task.available_forms) :
        Chars(task.available_forms[i].id) = strip(Chars(task.classifier.answer))

\* The classifier was called and has answered.
Answered == task.classifier.calls = 1 /\ ~task.classifier.exhausted

\* C16 (as stated): the classifier stage gives one form only when the answer
\* of the classifier is exactly an id of the listing, and then that id; every
\* other answer is taken as UNCLEAR, that is the product search is run and
\* gives the result.
C16_ClassifierAnswerIsExactlyAnId ==
    (Answered /\ task.via # "none")
        => /\ task.via = "classifier" <=> AnswerIsAnId
           /\ task.via = "classifier" => task.result = Str(task.classifier.answer)
           /\ task.via # "classifier" => (task.via = "fallback" /\ task.pass = 2)

\* C16 (amended): the same with the answer taken without the whitespace
\* around it: an id of the listing between spaces or newlines gives that form.
C16_ClassifierAnswerStrippedIsAnId ==
    (Answered /\ task.via # "none")
        => /\ task.via = "classifier" <=> StrippedAnswerIsAnId
           /\ task.via = "classifier" =>
                 /\ task.result.type = "str"
                 /\ Chars(task.result.ids[1]) = strip(Chars(task.classifier.answer))
           /\ task.via # "classifier" => (task.via = "fallback" /\ task.pass = 2)

C16_Witness ==
    /\ task.classifier.answer = "the form is f2"
    /\ task.via = "fallback"
    /\ task.pass = 2
    /\ \E i \in 1..Len(task.available_forms) : task.available_forms[i].id = "f2"

\* C17: when the classifier answers UNCLEAR or something that is no id of the
\* listing, the product search is run over every form of the listing, whether
\* or not the query matched an explicit-intent term, and the resolver returns
\* the forms that score; so the resolver returns no form only when no form the
\* search looked at has products that score.
C17_FuzzyIsLastResort ==
    /\ (Answered /\ ~StrippedAnswerIsAnId)
          => /\ task.pass = 2
             /\ task.via \in {"none", "fallback"}
             /\ task.via = "none" => task.pc = "product_search"
             /\ task.via = "fallback" =>
                   /\ [i \in 1..Len(task.seen) |-> task.seen[i].form_id]
                          = FormIdsOf(task.available_forms)
                   /\ task.result.type = "list"
                   /\ Range(task.result.ids) = PositiveForms
                   /\ Len(task.result.ids) = Cardinality(PositiveForms)
    /\ (ResolverReturned /\ task.result.ids = <<>>)
          => /\ task.via = "fallback"
             /\ Len(task.seen) = Len(task.available_forms)
             /\ PositiveForms = {}
             /\ task.replies = <<"clarify">>

C17_Witness ==
    /\ task.text = "reta 30 gb"
    /\ ExplicitIntent
    /\ task.classifier.answer = "UNCLEAR"
    /\ task.via = "fallback"
    /\ task.result = List(<<"f1", "f2">>)

\* The score of a form in the last product search, its place in the listing
\* and its latest activity.
ScoreOf(form_id) ==
    LET i == CHOOSE j \in 1..Len(task.seen) : task.seen[j].form_id = form_id
    IN  total_score(lower(Chars(task.text)), task.seen[i].products)

PlaceOf(form_id) ==
    CHOOSE j \in 1..Len(task.available_forms) : task.available_forms[j].id = form_id

LatestOf(form_id) == Chars(task.available_forms[PlaceOf(form_id)].latest_submission)

\* The resolver returned the list of a product search.
FromProductSearch == ResolverReturned /\ task.via \in {"product_first", "fallback"}

C19_ClassifierListing ==
    task.classifier.calls = 1 =>
        LET listing == task.classifier.listing
        IN  /\ Len(listing) = Len(task.available_forms)
            /\ Range(listing) = Range(FormIdsOf(task.available_forms))
            /\ \A i, j \in 1..Len(listing) : i < j =>
                   ~StrLess(LatestOf(listing[i]), LatestOf(listing[j]))
            /\ (Answered /\ StrippedAnswerIsAnId) =>
                   /\ task.via = "classifier"
                   /\ task.result.type = "str"
                   /\ Chars(task.result.ids[1]) = strip(Chars(task.classifier.answer))

C19_Witness ==
    /\ task.text = "what's in the current GB"
    /\ FormIdsOf(task.available_forms) = <<"f1", "f2", "f4">>
    /\ task.classifier.listing = <<"f2", "f4", "f1">>
    /\ task.classifier.answer = "f2"
    /\ task.result = Str("f2")

\* The resolver was entered and left by an exception.
ResolverRaised == task.analyzed /\ task.via = "none" /\ task.exc # None

\* C20: the resolver raises only when the call of the classifier failed after
\* its retries, for which there is no stale value; a product list that cannot
\* be loaded is served stale or passed over, and when nothing matches the
\* resolver returns the empty result, which is answered by the request to be
\* more specific and not by an error.
C20_ResolverRaisesOnlyOnProviderFailure ==
    /\ ResolverRaised
          => /\ task.exc = "ExternalServiceError"
             /\ task.classifier.calls = 1
             /\ task.classifier.exhausted
             /\ task.classifier.attempts = OPENAI_MAX_RETRIES
    /\ (task.analyzed /\ task.pc = "idle" /\ ~task.classifier.exhausted)
          => /\ ResolverReturned
             /\ task.result.type \in {"str", "list"}
    /\ (ResolverReturned /\ task.result.ids = <<>>)
          => /\ task.exc = None
             /\ task.replies = <<"clarify">>

C20_Witness ==
    /\ task.text = "price of reta 30"
    /\ task.pc = "fetch"
    /\ task.via = "product_first"
    /\ last.op = "get_products"
    /\ last.exhausted
    /\ last.outcome = "value"
    /\ \E i \in 1..Len(task.seen) : task.seen[i].loaded /\ task.seen[i].products # <<>>

\* A message was taken and handle_message has returned.
Handled == task.pc = "idle" /\ task.text # ""

\* C21: a message that reaches the lookup of the forms is answered by one
\* reply, sent when handle_message returns: an ExternalServiceError of the
\* helper, of the classifier or of the answering model gives the retry-later
\* message, a resolution to no form gives the request to be more specific, and
\* in neither case is an answer of the model sent.
C21_OneReplyPerMessage ==
    /\ ~Handled => task.replies = <<>>
    /\ Handled => Len(task.replies) = 1
    /\ task.exc = "ExternalServiceError" => task.replies = <<"unreachable">>
    /\ (ResolverReturned /\ task.result.ids = <<>>)
          => (task.replies = <<"clarify">> /\ task.model_calls = 0)
    /\ task.replies = <<"answer">>
          => /\ task.exc = None
             /\ task.result.ids # <<>>
             /\ task.forms_data # <<>>
             /\ task.model_calls = 1

C21_Witness ==
    /\ Handled
    /\ task.forms_data # <<>>
    /\ task.model_calls = 1
    /\ task.exc = "ExternalServiceError"
    /\ task.replies = <<"unreachable">>

\* The keys of the three caches for the forms of the model.
CacheKeys == {FormsKey} \cup {ProductsKey(f) : f \in FormIds}
                        \cup {MetadataKey(f) : f \in FormIds}

\* What the caches hold for a key, given the six dicts: whether there is an
\* entry (for the listing: always, the dict itself), its value and the time of
\* its refresh.
HasIn(fc, pc, mc, key) ==
    CASE key[1] = "forms" -> TRUE
      [] key[1] = "products" -> key[2] \in DOMAIN pc
      [] key[1] = "metadata" -> key[2] \in DOMAIN mc

ValueIn(fc, pc, mc, key) ==
    CASE key[1] = "forms" -> fc
      [] key[1] = "products" -> pc[key[2]]
      [] key[1] = "metadata" -> mc[key[2]]

TimeIn(fts, pts, mts, key) ==
    CASE key[1] = "forms" -> fts
      [] key[1] = "products" -> Get(pts, key[2], 0)
      [] key[1] = "metadata" -> Get(mts, key[2], 0)

\* A step changes what the caches hold for the key.
Touches(key) ==
    \/ HasIn(forms_cache', products_cache', form_metadata_cache', key)
           # HasIn(forms_cache, products_cache, form_metadata_cache, key)
    \/ TimeIn(forms_cache_timestamp', products_cache_timestamps',
              form_metadata_cache_timestamps', key)
           # TimeIn(forms_cache_timestamp, products_cache_timestamps,
                    form_metadata_cache_timestamps, key)
    \/ /\ HasIn(forms_cache, products_cache, form_metadata_cache, key)
       /\ HasIn(forms_cache', products_cache', form_metadata_cache', key)
       /\ ValueIn(forms_cache', products_cache', form_metadata_cache', key)
              # ValueIn(forms_cache, products_cache, form_metadata_cache, key)

\* C23: a get of one key, served from the cache, refreshed or with a failed
\* refresh, leaves the value and the time of refresh of every other key as
\* they were; only the reset of all caches changes more than one key.
C23_KeyIndependence ==
    [][\A key \in CacheKeys :
          Touches(key) => (last'.op = "refresh" \/ last'.key = key)]_vars

C23_Witness ==
    /\ last.op = "get_products"
    /\ last.key = ProductsKey("f1")
    /\ last.refreshFailed
    /\ last.outcome = "value"
    /\ \A key \in CacheKeys : key # ProductsKey("f1") =>
          (HasEntry(key) /\ Age(key) <= CACHE_TTL_SECONDS)

\* The last call was a get of the listing for which the provider's listing
\* was obtained and every form of it has a title.
ListingLoaded ==
    /\ last.op = "get_all_forms"
    /\ last.attempts > 0
    /\ ~last.exhausted
    /\ \A i \in 1..Len(last.listing) : last.listing[i].title # Missing

\* The latest submission the provider gave for the i-th form of the listing,
\* None when it gave none or the call failed on every attempt.
ActivityOf(i) ==
    LET a == Answer(last.subs[i])
    IN  IF a.ok /\ a.val # <<>> THEN a.val[1].created_at ELSE None

\* C24: after a successful refresh of the listing every form of the
\* provider's listing has its record, whose latest_submission is the time of
\* the latest submission when the provider gave one and the form's created_at
\* otherwise; a submissions call that fails on every attempt neither fails the
\* refresh nor leaves the form out.
C24_LatestActivityDefaultsToCreated ==
    ListingLoaded =>
        /\ ~last.refreshFailed
        /\ last.outcome = "value"
        /\ forms_cache = last.value
        /\ Len(last.value) = Len(last.listing)
        /\ \A i \in 1..Len(last.listing) :
              /\ last.value[i].id = last.listing[i].id
              /\ last.value[i].created = last.listing[i].created_at
              /\ last.value[i].latest_submission =
                     IF ActivityOf(i) # None THEN ActivityOf(i)
                     ELSE last.listing[i].created_at

C24_Witness ==
    /\ ListingLoaded
    /\ Len(last.listing) = 2
    /\ ~Answer(last.subs[1]).ok
    /\ Answer(last.subs[2]).ok /\ Answer(last.subs[2]).val # <<>>
    /\ last.value[1].latest_submission = "2024-01-05"
    /\ last.value[2].latest_submission = "2024-04-01"

-----------------------------------------------------------------------------
(* fuzzy_match_product_name, as the properties speak of it                   *)

\* The lowercased message and name of the call, and the first word of the
\* name.
ScoredMessage == lower(scored.message)
ScoredName == lower(scored.product_name)
ScoredMainWord == split(ScoredName)[1]

\* The name has a character that is no whitespace.
NameHasAWord == \E i \in 1..Len(scored.product_name) : scored.product_name[i] \notin SpaceChars

\* The lowercased name is in the lowercased message as it is.
Verbatim == Contains(ScoredMessage, ScoredName)

\* The call went through the bonuses: the name has a word and is not in the
\* message as it is.
ByBonuses == scored.called /\ NameHasAWord /\ ~Verbatim

\* C25 (as stated): a name whose lowercase is a substring of the lowercased
\* message scores 10, whatever the name, the empty one and those of
\* whitespace included.
C25_VerbatimScoresTen ==
    (scored.called /\ Verbatim) => scored.score = 10

\* C25 (amended): a name that has a character other than whitespace and
\* whose lowercase is a substring of the lowercased message scores 10; a name
\* that is empty or whitespace only scores 0.
C25_VerbatimNameWithAWordScoresTen ==
    scored.called =>
        /\ (NameHasAWord /\ Verbatim) => scored.score = 10
        /\ ~NameHasAWord => scored.score = 0

C25_Witness ==
    /\ scored.called
    /\ scored.product_name = Chars("Retatrutide 30")
    /\ scored.message = Join(<<"re", "Retatrutide", "30">>)
    /\ scored.score = 10

\* C26 (as stated): every score is between 0 and 10, so that a name that is
\* not in the message as it is never scores more than one that is.
C26_TenIsTheMaximum ==
    scored.called => (0 <= scored.score /\ scored.score <= 10)

\* What the prefix loop added to the score of a call that went through the
\* bonuses, and what the numbers check added.
PrefixPart ==
    scored.score - NumericBonus(ScoredMessage, ScoredName)
                 - WholeWordBonus(ScoredMessage, ScoredMainWord)
                 - VariationBonus(ScoredMessage, ScoredMainWord)

NumericPart ==
    scored.score - PrefixBonus(ScoredMessage, ScoredMainWord)
                 - WholeWordBonus(ScoredMessage, ScoredMainWord)
                 - VariationBonus(ScoredMessage, ScoredMainWord)

\* C27 (as stated): the prefix loop adds at most 3 to a score, over all
\* prefix lengths together, and nothing when the first word of the name has
\* fewer than 4 characters.
C27_PrefixBonusAtMostThree ==
    ByBonuses =>
        /\ PrefixPart <= 3
        /\ Len(ScoredMainWord) < 4 => PrefixPart = 0

\* The numbers of a string, as a set.
DigitRuns(s) == Range(findall_digits(s))

\* C28: in a call that goes through the bonuses, 3 is added for the numbers
\* exactly when the name has a number and every number of the name is a
\* number of the message; when no number of the name is one of the message,
\* the numbers add 0.
C28_NumericBonus ==
    ByBonuses =>
        /\ NumericPart \in {0, 3}
        /\ NumericPart = 3 <=>
              (DigitRuns(ScoredName) # {}
               /\ DigitRuns(ScoredName) \subseteq DigitRuns(ScoredMessage))
        /\ (DigitRuns(ScoredName) # {}
            /\ DigitRuns(ScoredName) \cap DigitRuns(ScoredMessage) = {})
              => NumericPart = 0

C28_Witness ==
    /\ ByBonuses
    /\ scored.product_name = Chars("Retatrutide 30")
    /\ scored.message = Join(<<"reta", "30", "300">>)
    /\ NumericPart = 3
    /\ scored.score = 6

-----------------------------------------------------------------------------
(* The aggregate of a form and the answering model                           *)

\* The sum of the scores of the products of a list that have a name, for the
\* message of the task.
RECURSIVE NamedSum(_)
NamedSum(products) ==
    IF products = <<>> THEN 0
    ELSE (IF Head(products).name \in {"", "N/A"} THEN 0
          ELSE fuzzy_match_product_name(lower(Chars(task.text)),
                                        lower(Chars(Head(products).name))))
         + NamedSum(Tail(products))

\* The product search of the task has looked at every form.
SearchDone == task.pass >= 1 /\ task.todo = <<>>

\* C29: the score of a form is the sum of the scores of its products that
\* have a name other than '' and 'N/A'; the matches of a product search are
\* the forms whose sum is above 0, each with its sum, and what the search
\* returns is these forms and no other.
C29_CatalogAggregate ==
    /\ \A i \in 1..Len(task.seen) :
          LET sum == NamedSum(task.seen[i].products)
              entries == { j \in 1..Len(task.form_matches) :
                             task.form_matches[j].form_id = task.seen[i].form_id }
          IN  /\ sum > 0 => /\ Cardinality(entries) = 1
                            /\ \A j \in entries : task.form_matches[j].score = sum
              /\ sum = 0 => entries = {}
    /\ (SearchDone /\ FromProductSearch)
          => Range(task.result.ids) =
                 { task.seen[i].form_id : i \in
                     { j \in 1..Len(task.seen) : NamedSum(task.seen[j].products) > 0 } }

C29_Witness ==
    /\ task.text = "reta 30 or tirzepatide"
    /\ SearchDone
    /\ Len(task.seen[1].products) = 2
    /\ Len(task.seen[2].products) = 3
    /\ task.form_matches = << [form_id |-> "f1", score |-> 9],
                              [form_id |-> "f2", score |-> 6] >>
    /\ task.result = List(<<"f1", "f2">>)

\* C30: an answer is never kept: a message that resolves to a form with
\* products gets its answer from a call of the model made for it, through the
\* retry loop, also when the same question was answered before; and the call
\* of the model changes no cache.
C30_AnswersAreNotReused ==
    [][/\ task.pc = "answer"
          => /\ task'.model_calls = task.model_calls + 1
             /\ UNCHANGED cacheVars
       /\ (task'.replies # task.replies /\ task'.replies = <<"answer">>)
          => /\ task.pc = "answer"
             /\ task.forms_data # <<>>
             /\ task'.model_calls = 1
       /\ (task'.pc = "idle" /\ task'.forms_data # <<>>)
          => /\ task'.model_calls = 1
             /\ task'.replies \in {<<"answer">>, <<"unreachable">>}]_vars

C30_Witness ==
    /\ Handled
    /\ task.text = "price of reta 30"
    /\ task.replies = <<"answer">>
    /\ task.model_calls = 1
    /\ last.op = "get_form_metadata"
    /\ last.attempts = 0
    /\ last.outcome = "value"

-----------------------------------------------------------------------------
(* C31 *)

\* The time a key was stored at.
StoredAt(key) ==
    CASE key[1] = "forms" -> forms_cache_timestamp
      [] key[1] = "products" -> Get(products_cache_timestamps, key[2], 0)
      [] key[1] = "metadata" -> Get(form_metadata_cache_timestamps, key[2], 0)

Cancelled == task.pc = "idle" /\ task.exc = "CancelledError"

\* last is a get of another handler that was served from the cache.
ServedFromCache ==
    last.op \in ListOps /\ last.outcome = "value" /\ last.attempts = 0

\* C31: when the handling of a message is cancelled, every key that it had
\* refreshed successfully before is still stored, with the value of a
\* successful load and a time no earlier than that refresh, and a later get
\* served from the cache returns that stored value.
C31_RefreshOutlivesCancel ==
    Cancelled =>
        /\ \A e \in task.refreshed :
              /\ HasEntry(e.key)
              /\ Loaded(e.key)
              /\ Stored(e.key) = good[e.key]
              /\ StoredAt(e.key) >= e.at
        /\ ServedFromCache => last.value = Stored(last.key)

\* A cancelled message had reloaded the listing, and a later get_all_forms of
\* another handler was served that listing from the cache.
C31_Witness ==
    /\ Cancelled
    /\ \E e \in task.refreshed : e.key = FormsKey /\ e.at = forms_cache_timestamp
    /\ ServedFromCache
    /\ last.key = FormsKey
    /\ last.value = forms_cache
    /\ Len(forms_cache) = 2

-----------------------------------------------------------------------------
(* C32 *)

\* The attempts of the script that answer.
Successes == {i \in 1..Len(retry.script) : retry.script[i].ok}

FirstSuccess == CHOOSE k \in Successes : \A j \in Successes : k <= j

\* C32: when attempt k <= max_retries is the first that succeeds, the retry
\* loop returns its result after exactly k attempts and the k - 1 delays
\* backoff * 2^(i-1), i < k, and raises nothing, whatever a further attempt
\* would have returned.
C32_StopsAtFirstSuccess ==
    (retry.fn # "none" /\ Successes # {} /\ FirstSuccess <= retry.n)
        => /\ ~retry.run.raised
           /\ retry.run.exc = None
           /\ retry.run.value = retry.script[FirstSuccess].val
           /\ retry.run.attempts = FirstSuccess
           /\ retry.run.delays =
                  [i \in 1..(FirstSuccess - 1) |-> retry.base * (2 ^ (i - 1))]

\* Two failures, an answer at the third attempt of four, and another answer
\* that a fourth attempt would have got.
C32_Witness ==
    /\ retry.fn = "call_openai_with_retry"
    /\ retry.n = 4
    /\ retry.base = 2
    /\ retry.script = <<Err("ConnectionError"), Err("ConnectionError"),
                        Ok("answer"), Ok("later answer")>>
    /\ retry.run.value = "answer"
    /\ retry.run.attempts = 3
    /\ retry.run.delays = <<2, 4>>

-----------------------------------------------------------------------------
(* C33 *)

\* This step handles a /refresh.
RefreshStep == last'.op = "refresh" /\ update'.command = "/refresh"

\* C33 (as stated): a /refresh of a user who is not an admin leaves every
\* cache entry and every timestamp as they are.
C33_RefreshIsAdminOnly ==
    [][(RefreshStep /\ ~is_admin(update'.user)) => UNCHANGED cacheVars]_vars

-----------------------------------------------------------------------------
(* C34 *)

\* This step handles an /addadmin that names a user (or nobody: its sender).
AddAdminStep == update'.command = "/addadmin" /\ update'.arg # NotAnId

AddAdminTarget == IF update'.arg = None THEN update'.user ELSE update'.arg

\* C34: an /addadmin handled while the table of admins is empty adds the
\* user it names, whoever sends it; one handled while there is an admin and
\* sent by a user who is not an admin leaves the table as it is.
C34_AdminBootstrap ==
    [][AddAdminStep =>
          /\ admins = <<>> => AddAdminTarget \in DOMAIN admins'
          /\ (admins # <<>> /\ update'.user \notin DOMAIN admins) => admins' = admins]_vars

\* u1 made itself the first admin, and u2, no admin, then asked to be added:
\* u1 is the only admin.
C34_Witness ==
    /\ update = [command |-> "/addadmin", user |-> "u2", arg |-> None]
    /\ DOMAIN admins = {"u1"}
    /\ admins["u1"] = "u1"
    /\ admin_history.first = "u1"
    /\ admin_history.by_admin = {}

-----------------------------------------------------------------------------
(* C35 *)

\* C35 (as stated): once the first admin has been added, every admin is that
\* first admin or a user that an admin has added.
C35_NoEscalationAfterBootstrap ==
    \A user \in DOMAIN admins :
        user = admin_history.first \/ user \in admin_history.by_admin

-----------------------------------------------------------------------------
(* C36 *)

\* This step is a call of get_all_forms or get_products.
GetStep == now' = now /\ last'.op \in ListOps

\* The key has an entry that is older than the TTL.
Expired(key) == HasEntry(key) /\ Age(key) > CACHE_TTL_SECONDS

\* C36: a get that serves an entry because its refresh failed leaves the
\* entry's time as it was; every get of a key whose entry is older than the
\* TTL calls the loader, max_retries times when no attempt succeeds; and a
\* get whose load succeeds stores the loaded value with the time of the call.
C36_StaleReadIsNoRefresh ==
    [][\A key \in CacheKeys :
          (GetStep /\ last'.key = key) =>
              /\ (last'.refreshFailed /\ last'.outcome = "value")
                     => StoredAt(key)' = StoredAt(key)
              /\ Expired(key)
                     => /\ last'.attempts >= 1
                        /\ last'.exhausted => last'.attempts = max_retries
              /\ (last'.attempts >= 1 /\ ~last'.refreshFailed)
                     => /\ StoredAt(key)' = now'
                        /\ Stored(key)' = last'.value]_vars

\* The products of f1 were served two TTLs old after three failed attempts,
\* and the entry is still as old.
C36_Witness ==
    /\ last.op = "get_products"
    /\ last.key = ProductsKey("f1")
    /\ last.outcome = "value"
    /\ last.refreshFailed
    /\ last.exhausted
    /\ last.attempts = max_retries
    /\ last.overTTL
    /\ last.value = products_cache["f1"]
    /\ Age(ProductsKey("f1")) = 2 * CACHE_TTL_SECONDS

-----------------------------------------------------------------------------
(* C37 *)

\* The ids of the forms the product search has looked at, and of its matches.
SeenIds == [i \in 1..Len(task.seen) |-> task.seen[i].form_id]
MatchIds == {task.form_matches[i].form_id : i \in 1..Len(task.form_matches)}

\* C37: a turn of the product search whose get_products raises (nothing
\* stored for the form, every attempt failed) leaves the message without an
\* error, adds no match for the form and goes on with the next form; the
\* search ends only when every form of the listing was looked at.
C37_FailedCatalogIsPassedOver ==
    [][task.pc = "product_search" =>
          /\ task'.exc = None
          /\ last'.outcome = "raise" =>
                /\ Head(task.todo) \notin MatchIds'
                /\ task'.form_matches = task.form_matches
          /\ SeenIds' = Append(SeenIds, Head(task.todo))
          /\ task'.pc = "product_search" => task'.todo = Tail(task.todo)
          /\ task'.pc # "product_search" => SeenIds' = FormIdsOf(task.available_forms)]_vars

\* The products of f1 could not be loaded, f2 was scored all the same and is
\* the result of the product search.
C37_Witness ==
    /\ task.pass = 1
    /\ Len(task.seen) = 2
    /\ task.seen[1].form_id = "f1"
    /\ ~task.seen[1].loaded
    /\ task.seen[2].loaded
    /\ task.form_matches = <<[form_id |-> "f2", score |-> 6]>>
    /\ task.via = "product_first"
    /\ task.result = List(<<"f2">>)
    /\ task.exc = None

-----------------------------------------------------------------------------
(* C38 *)

\* C38: when every attempt of the classifier call has failed, the message
\* ends with ExternalServiceError: no fallback product search is run, no
\* form is resolved, and the one reply is the retry-later message.
C38_ClassifierFailureIsNotUnclear ==
    task.classifier.exhausted =>
        /\ task.pc = "idle"
        /\ task.exc = "ExternalServiceError"
        /\ task.classifier.attempts = OPENAI_MAX_RETRIES
        /\ task.pass # 2
        /\ task.via = "none"
        /\ task.result.ids = <<>>
        /\ task.model_calls = 0
        /\ task.replies = <<"unreachable">>

\* The first product search found nothing for the message, and the
\* classifier failed three times.
C38_Witness ==
    /\ task.text = "price of reta 30"
    /\ task.pass = 1
    /\ task.form_matches = <<>>
    /\ task.classifier.calls = 1
    /\ task.classifier.exhausted
    /\ task.classifier.attempts = 3
    /\ task.replies = <<"unreachable">>

-----------------------------------------------------------------------------
(* C39 *)

\* The ids of the listing that handle_message passed to the resolver.
ListingIds == Range(FormIdsOf(task.available_forms))

\* C39: every id of a result of the resolver, whichever stage returned it,
\* is an id of the listing that was passed to it, and no result names an
\* id twice.
C39_ResultIdsAreListingIds ==
    ResolverReturned =>
        /\ \A i \in 1..Len(task.result.ids) : task.result.ids[i] \in ListingIds
        /\ \A i, j \in 1..Len(task.result.ids) :
              task.result.ids[i] = task.result.ids[j] => i = j

\* The provider named f1 twice; the listing has it once, with what was
\* stored last, and the product search returned both forms.
C39_Witness ==
    /\ ResolverReturned
    /\ Len(task.available_forms) = 2
    /\ task.available_forms[1].id = "f1"
    /\ task.available_forms[1].title = "January GB II"
    /\ task.via = "product_first"
    /\ task.result.type = "list"
    /\ Range(task.result.ids) = {"f1", "f2"}
    /\ Len(task.result.ids) = 2

-----------------------------------------------------------------------------
(* C40 *)

\* C40 (as stated): while the order-status conversation waits for the
\* identifier, user_data holds the status_form_id that was selected.
C40_SelectedFormIsKept ==
    conv.status = "WAITING_IDENTIFIER" =>
        /\ "status_form_id" \in DOMAIN conv.user_data
        /\ conv.user_data["status_form_id"] = conv.selected

====
